---- MODULE Spec2Model ----
(***************************************************************************)
(* Canonical Vocabulary Compression: the canonicalization engine of        *)
(* scripts/apply_cvc.py (class CVCProcessor), the reverse index built by   *)
(* scripts/expand_mappings.py, the wrapper of the command-line tool in     *)
(* scripts/apply_cvc_rust.py and the metrics of scripts/basic_evaluation.py. *)
(*                                                                         *)
(* A text is a sequence of one-character strings.  A Python dict is a      *)
(* sequence of <<key, value>> pairs with distinct keys, in insertion       *)
(* order.  An Optional[str] is None (the empty sequence) or <<value>>.     *)
(***************************************************************************)
EXTENDS Integers, Sequences, FiniteSets, TLC

VARIABLES
    mapping_file,             \* the file the processor is constructed from
    load_error,               \* exception raised by __init__, or "none"
    metadata,                 \* self.metadata
    mappings,                 \* self.mappings
    reverse_lookup,           \* self.reverse_lookup
    case_insensitive_lookup,  \* self.case_insensitive_lookup
    op,                       \* the last operation called on the processor
    text,                     \* process_text: argument text
    preserve_case,            \* process_text: argument preserve_case
    processed_text,           \* process_text: returned text
    statistics,               \* process_text: returned statistics
    lookups,                  \* process_text: the calls of _get_canonical it made
    lookup_word,              \* _get_canonical: argument word
    lookup_result,            \* _get_canonical: returned value
    prev_processed,           \* text returned by the call this call's text derives from
    input_content,            \* process_file / get_vocabulary_stats: the file read
    output_content,           \* process_file: the file written
    file_stats,               \* process_file: returned dictionary
    vocab_stats,              \* get_vocabulary_stats: returned dictionary
    file_access,              \* whether input_file and output_file can be opened
    prev_result,              \* what the call returned before the processor was rebuilt
    raised,                   \* exception raised by the last operation, or "none"
    disk,                     \* process_file: the paths given, the files before and after
    line_order,               \* the order in which the lines of the file were processed
    fault,                    \* RustCVCProcessor: the step of the call that fails
    temp_files,               \* RustCVCProcessor: the temporary files left on disk
    evaluation                \* basic_evaluation: the results dictionary of main

vars == <<mapping_file, load_error, metadata, file_access, prev_result,
          mappings, reverse_lookup, case_insensitive_lookup, op, text,
          preserve_case, processed_text, statistics, lookups, lookup_word,
          lookup_result,
          prev_processed,
          input_content, output_content, file_stats, vocab_stats, raised,
          disk, line_order, fault, temp_files, evaluation>>

(***************************************************************************)
(* Characters and the str methods the engine uses (ASCII).                 *)
(***************************************************************************)
LowerAlphabet ==
    <<"a","b","c","d","e","f","g","h","i","j","k","l","m",
      "n","o","p","q","r","s","t","u","v","w","x","y","z">>

UpperAlphabet ==
    <<"A","B","C","D","E","F","G","H","I","J","K","L","M",
      "N","O","P","Q","R","S","T","U","V","W","X","Y","Z">>

LowerChars == {LowerAlphabet[i] : i \in 1..Len(LowerAlphabet)}

UpperChars == {UpperAlphabet[i] : i \in 1..Len(UpperAlphabet)}

DigitChars == {"0","1","2","3","4","5","6","7","8","9"}

WhitespaceChars == {" ", "\t", "\n", "\r"}

\* the regular-expression class \w
IsWordChar(c) == c \in LowerChars \/ c \in UpperChars \/ c \in DigitChars \/ c = "_"

\* str.isspace of one character, as str.split() and str.strip() use it
IsSpace(c) == c \in WhitespaceChars

AlphabetIndex(c, alphabet) == CHOOSE i \in 1..Len(alphabet) : alphabet[i] = c

CharLower(c) ==
    IF c \in UpperChars THEN LowerAlphabet[AlphabetIndex(c, UpperAlphabet)] ELSE c

CharUpper(c) ==
    IF c \in LowerChars THEN UpperAlphabet[AlphabetIndex(c, LowerAlphabet)] ELSE c

\* str.lower
StrLower(s) == [i \in 1..Len(s) |-> CharLower(s[i])]

\* str.upper
StrUpper(s) == [i \in 1..Len(s) |-> CharUpper(s[i])]

\* str.capitalize: first character uppercased, the rest lowercased
StrCapitalize(s) ==
    [i \in 1..Len(s) |-> IF i = 1 THEN CharUpper(s[i]) ELSE CharLower(s[i])]

\* str.isupper: at least one cased character and no lowercase character
StrIsUpper(s) ==
    /\ \E i \in 1..Len(s) : s[i] \in UpperChars
    /\ \A i \in 1..Len(s) : s[i] \notin LowerChars

\* str.split() with no argument: the maximal runs of non-whitespace
RECURSIVE SplitFrom(_, _, _)
SplitFrom(s, i, unit) ==
    IF i > Len(s)
    THEN (IF unit = <<>> THEN <<>> ELSE <<unit>>)
    ELSE IF IsSpace(s[i])
    THEN (IF unit = <<>> THEN <<>> ELSE <<unit>>) \o SplitFrom(s, i + 1, <<>>)
    ELSE SplitFrom(s, i + 1, Append(unit, s[i]))

Split(s) == SplitFrom(s, 1, <<>>)

\* sep.join(words)
RECURSIVE Join(_, _)
Join(words, sep) ==
    IF words = <<>> THEN <<>>
    ELSE IF Len(words) = 1 THEN words[1]
    ELSE words[1] \o sep \o Join(Tail(words), sep)

\* str.strip() with no argument
Strip(s) ==
    LET kept == {i \in 1..Len(s) : ~IsSpace(s[i])}
    IN  IF kept = {} THEN <<>>
        ELSE LET first == CHOOSE i \in kept : \A j \in kept : i <= j
                 last == CHOOSE i \in kept : \A j \in kept : j <= i
             IN  SubSeq(s, first, last)

(***************************************************************************)
(* Python dict, in insertion order.                                        *)
(***************************************************************************)
DictHas(d, k) == \E i \in 1..Len(d) : d[i][1] = k

DictGet(d, k) == d[CHOOSE i \in 1..Len(d) : d[i][1] = k][2]

\* d[k] = v: an existing key keeps its place, a new key is appended
DictSet(d, k, v) ==
    IF DictHas(d, k)
    THEN [i \in 1..Len(d) |-> IF d[i][1] = k THEN <<k, v>> ELSE d[i]]
    ELSE Append(d, <<k, v>>)

None == <<>>

Some(v) == <<v>>

\* truth value of an Optional[str]: None and the empty string are false
Truthy(o) == o # None /\ o[1] # <<>>

(***************************************************************************)
(* The mapping data.  ExpandedMappings is a fragment of the dictionary     *)
(* literal of expand_mappings.py: five of its categories, in the order of  *)
(* the source, each with a sub-list of its synonyms in the order of the    *)
(* source.  It keeps the words listed under two categories ("great",       *)
(* "brilliant"), the word that is both a synonym and a canonical           *)
(* ("bright") and the synonym that contains a space ("not ever").          *)
(***************************************************************************)
W_big == <<"b","i","g">>

W_large == <<"l","a","r","g","e">>

W_huge == <<"h","u","g","e">>

W_enormous == <<"e","n","o","r","m","o","u","s">>

W_great == <<"g","r","e","a","t">>

W_smart == <<"s","m","a","r","t">>

W_clever == <<"c","l","e","v","e","r">>

W_bright == <<"b","r","i","g","h","t">>

W_brilliant == <<"b","r","i","l","l","i","a","n","t">>

W_good == <<"g","o","o","d">>

W_fine == <<"f","i","n","e">>

W_luminous == <<"l","u","m","i","n","o","u","s">>

W_never == <<"n","e","v","e","r">>

W_not_ever == <<"n","o","t"," ","e","v","e","r">>

ExpandedMappings ==
    << [category |-> "size_big", canonical |-> W_big,
        synonyms |-> <<W_large, W_huge, W_enormous, W_great>>],
       [category |-> "intelligence_smart", canonical |-> W_smart,
        synonyms |-> <<W_clever, W_bright, W_brilliant>>],
       [category |-> "quality_good", canonical |-> W_good,
        synonyms |-> <<W_great, W_fine>>],
       [category |-> "light_bright", canonical |-> W_bright,
        synonyms |-> <<W_luminous, W_brilliant>>],
       [category |-> "adverb_never", canonical |-> W_never,
        synonyms |-> <<W_not_ever>>] >>

\* a synonym that is a key already keeps the canonical it has
RECURSIVE AddSynonymsKeepingFirst(_, _, _)
AddSynonymsKeepingFirst(lookup, synonyms, canonical) ==
    IF synonyms = <<>> THEN lookup
    ELSE AddSynonymsKeepingFirst(
             IF DictHas(lookup, Head(synonyms)) THEN lookup
             ELSE DictSet(lookup, Head(synonyms), canonical),
             Tail(synonyms), canonical)

\* for synonym in info["synonyms"]: reverse_lookup[synonym] = canonical
RECURSIVE AddSynonyms(_, _, _)
AddSynonyms(lookup, synonyms, canonical) ==
    IF synonyms = <<>> THEN lookup
    ELSE AddSynonyms(DictSet(lookup, Head(synonyms), canonical),
                     Tail(synonyms), canonical)

\* for category, info in expanded_mappings["mappings"].items(): ...
RECURSIVE BuildReverseLookup(_, _)
BuildReverseLookup(lookup, categories) ==
    IF categories = <<>> THEN lookup
    ELSE BuildReverseLookup(
             AddSynonyms(lookup, Head(categories).synonyms, Head(categories).canonical),
             Tail(categories))

\* expanded_mappings["metadata"], with the count line 781 stores in it
ExpandedMetadata ==
    << <<"version", "2.0">>, <<"total_mappings", Len(ExpandedMappings)>> >>

\* the document expand_mappings.py saves
ExpandedDocument ==
    [metadata |-> ExpandedMetadata,
     mappings |-> ExpandedMappings,
     reverse_lookup |-> BuildReverseLookup(<<>>, ExpandedMappings)]

(***************************************************************************)
(* CVCProcessor.__init__ and the lookups.                                  *)
(***************************************************************************)
\* a lowercased key that is in the index already keeps the value it has
RECURSIVE LowerKeysKeepingFirst(_, _)
LowerKeysKeepingFirst(lookup, items) ==
    IF items = <<>> THEN lookup
    ELSE LowerKeysKeepingFirst(
             IF DictHas(lookup, StrLower(Head(items)[1])) THEN lookup
             ELSE DictSet(lookup, StrLower(Head(items)[1]), Head(items)[2]),
             Tail(items))

\* {k.lower(): v for k, v in self.reverse_lookup.items()}
RECURSIVE LowerKeys(_, _)
LowerKeys(lookup, items) ==
    IF items = <<>> THEN lookup
    ELSE LowerKeys(DictSet(lookup, StrLower(Head(items)[1]), Head(items)[2]),
                   Tail(items))

BuildCaseInsensitiveLookup(lookup) == LowerKeys(<<>>, lookup)

\* {}
EmptyDict == <<>>

\* __init__ raises e: no processor is constructed
LoadFailure(e) ==
    [raised |-> e, reverse_lookup |-> EmptyDict, mappings |-> EmptyDict,
     metadata |-> EmptyDict, case_insensitive_lookup |-> EmptyDict]

\* the fields read with data.get(key, {}), the three of them
LoadDocumentDefaulting(data) ==
    [raised |-> "none",
     reverse_lookup |-> IF "reverse_lookup" \in DOMAIN data
                        THEN data.reverse_lookup ELSE EmptyDict,
     mappings |-> IF "mappings" \in DOMAIN data THEN data.mappings ELSE EmptyDict,
     metadata |-> IF "metadata" \in DOMAIN data THEN data.metadata ELSE EmptyDict,
     case_insensitive_lookup |->
         IF "reverse_lookup" \in DOMAIN data
         THEN BuildCaseInsensitiveLookup(data.reverse_lookup) ELSE EmptyDict]

\* __init__ from line 29 on, data being the parsed document
LoadDocument(data) ==
    IF "reverse_lookup" \notin DOMAIN data THEN LoadFailure("KeyError")
    ELSE IF "mappings" \notin DOMAIN data THEN LoadFailure("KeyError")
    ELSE [raised |-> "none",
          reverse_lookup |-> data.reverse_lookup,
          mappings |-> data.mappings,
          metadata |-> IF "metadata" \in DOMAIN data THEN data.metadata
                       ELSE EmptyDict,
          case_insensitive_lookup |->
              BuildCaseInsensitiveLookup(data.reverse_lookup)]

\* CVCProcessor.__init__(mapping_file): open, json.load, the fields
Load(file) ==
    IF file.kind = "absent" THEN LoadFailure("FileNotFoundError")
    ELSE IF file.kind = "unparsable" THEN LoadFailure("JSONDecodeError")
    ELSE LoadDocument(file.data)

\* _get_canonical trying the case-insensitive index before the exact key
GetCanonicalFoldedFirst(word) ==
    IF DictHas(case_insensitive_lookup, StrLower(word))
    THEN Some(DictGet(case_insensitive_lookup, StrLower(word)))
    ELSE IF DictHas(reverse_lookup, word)
    THEN Some(DictGet(reverse_lookup, word))
    ELSE None

\* _get_canonical answering from self.mappings when a category lists the word
GetCanonicalFromMappings(word) ==
    IF \E i \in 1..Len(mappings) :
           \E j \in 1..Len(mappings[i].synonyms) : mappings[i].synonyms[j] = word
    THEN Some(mappings[CHOOSE i \in 1..Len(mappings) :
                  \E j \in 1..Len(mappings[i].synonyms) :
                      mappings[i].synonyms[j] = word].canonical)
    ELSE IF DictHas(reverse_lookup, word)
    THEN Some(DictGet(reverse_lookup, word))
    ELSE IF DictHas(case_insensitive_lookup, StrLower(word))
    THEN Some(DictGet(case_insensitive_lookup, StrLower(word)))
    ELSE None

\* CVCProcessor._get_canonical
GetCanonical(word) ==
    IF DictHas(reverse_lookup, word)
    THEN Some(DictGet(reverse_lookup, word))
    ELSE IF DictHas(case_insensitive_lookup, StrLower(word))
    THEN Some(DictGet(case_insensitive_lookup, StrLower(word)))
    ELSE None

\* _preserve_case testing the first character before the whole word
PreserveCaseFirstLetterOnly(original, canonical) ==
    IF original[1] \in UpperChars THEN StrCapitalize(canonical)
    ELSE IF StrIsUpper(original) THEN StrUpper(canonical)
    ELSE StrLower(canonical)

\* CVCProcessor._preserve_case
PreserveCase(original, canonical) ==
    IF StrIsUpper(original) THEN StrUpper(canonical)
    ELSE IF original[1] \in UpperChars THEN StrCapitalize(canonical)
    ELSE StrLower(canonical)

(***************************************************************************)
(* CVCProcessor.process_text.                                              *)
(***************************************************************************)
\* re.match(r'^([^\w]*)(\w+)([^\w]*)$', word): the unit is a run of non-word
\* characters, one run of word characters and a run of non-word characters.
\* wordAt is the set of positions of word characters, first the least of them,
\* last the end of the run of word characters that starts at first.
NoMatch == [matched |-> FALSE, prefix |-> <<>>, core_word |-> <<>>, suffix |-> <<>>]

MatchGroups(word, wordAt, first, last) ==
    [matched |-> \A j \in wordAt : j <= last,
     prefix |-> SubSeq(word, 1, first - 1),
     core_word |-> SubSeq(word, first, last),
     suffix |-> SubSeq(word, last + 1, Len(word))]

RunEnd(wordAt, first, length) ==
    CHOOSE i \in first..length :
        /\ \A j \in first..i : j \in wordAt
        /\ (i + 1) \notin wordAt

MatchFrom(word, wordAt, first) ==
    MatchGroups(word, wordAt, first, RunEnd(wordAt, first, Len(word)))

MatchIn(word, wordAt) ==
    IF wordAt = {} THEN NoMatch
    ELSE MatchFrom(word, wordAt, CHOOSE i \in wordAt : \A j \in wordAt : i <= j)

\* the pattern without its end anchor: the core is the first run of word
\* characters and the suffix is all that follows
MatchUnanchored(word) ==
    [MatchIn(word, {i \in 1..Len(word) : IsWordChar(word[i])}) EXCEPT
        !.matched = \E i \in 1..Len(word) : IsWordChar(word[i])]

Match(word) == MatchIn(word, {i \in 1..Len(word) : IsWordChar(word[i])})

\* the record with a 1-based position
ReplacementRecordOneBased(i, core_word, canonical) ==
    [position |-> i + 1, original |-> core_word, canonical |-> canonical]

\* the dictionary appended to replacements
ReplacementRecord(i, core_word, canonical) ==
    [position |-> i, original |-> core_word, canonical |-> canonical]

\* f"{prefix}{canonical}{suffix}"
Reassemble(prefix, canonical, suffix) == prefix \o canonical \o suffix

\* appending the word characters of the unit in place of the unit
PassThroughCore(word) == SelectSeq(word, IsWordChar)

\* the unit appended when it does not match or its core has no canonical
PassThrough(word) == word

\* the canonical emitted for a core that resolved
CasedCanonical(core_word, canonical, preserve) ==
    IF preserve THEN PreserveCase(core_word, canonical) ELSE canonical

\* One turn of "for i, word in enumerate(words)": the unit appended to
\* processed_words, the records appended to replacements, and the calls of
\* self._get_canonical made (position and argument).
Unreplaced(word, calls) ==
    [processed_word |-> PassThrough(word), replacements |-> <<>>, lookups |-> calls]

Replaced(i, match, cased) ==
    [processed_word |-> Reassemble(match.prefix, cased, match.suffix),
     replacements |-> <<ReplacementRecord(i, match.core_word, cased)>>,
     lookups |-> <<[position |-> i, word |-> match.core_word]>>]

\* if canonical: ... else: ...
Resolved(i, word, match, canonical, preserve) ==
    IF Truthy(canonical)
    THEN Replaced(i, match, CasedCanonical(match.core_word, canonical[1], preserve))
    ELSE Unreplaced(word, <<[position |-> i, word |-> match.core_word]>>)

\* if not match: ... continue
Matched(i, word, match, preserve) ==
    IF ~match.matched THEN Unreplaced(word, <<>>)
    ELSE Resolved(i, word, match, GetCanonical(match.core_word), preserve)

ProcessWord(i, word, preserve) == Matched(i, word, Match(word), preserve)

Accumulate(acc, turn) ==
    [processed_words |-> Append(acc.processed_words, turn.processed_word),
     replacements |-> acc.replacements \o turn.replacements,
     lookups |-> acc.lookups \o turn.lookups]

\* for i, word in enumerate(words): ...   (i is 0-based, words[i + 1] in TLA+)
RECURSIVE ProcessLoop(_, _, _, _)
ProcessLoop(words, i, preserve, acc) ==
    IF i >= Len(words) THEN acc
    ELSE ProcessLoop(words, i + 1, preserve,
                     Accumulate(acc, ProcessWord(i, words[i + 1], preserve)))

\* a / b in Python: the quotient as the fraction num / den, or the error raised
Divide(a, b) ==
    IF b = 0 THEN [kind |-> "ZeroDivisionError", num |-> 0, den |-> 1]
    ELSE [kind |-> "value", num |-> a, den |-> b]

\* the literal 0 of the "... if words else 0" guards
Zero == [kind |-> "value", num |-> 0, den |-> 1]

\* the exception a rate computation raised, or "none"
RaisedBy(rate) == IF rate.kind = "value" THEN "none" ELSE rate.kind

\* the rate without its guard
ReplacementRateUnguarded(replacements, words) ==
    Divide(Len(replacements), Len(words))

\* len(replacements) / len(words) if words else 0
ReplacementRate(replacements, words) ==
    IF words # <<>> THEN Divide(Len(replacements), Len(words)) ELSE Zero

\* the statistics counting only the units that hold a word character
StatisticsOfWordsOnly(words, replacements) ==
    [total_words |-> Len(SelectSeq(words, LAMBDA w : \E i \in 1..Len(w) : IsWordChar(w[i]))),
     replacements_made |-> Len(replacements),
     replacement_rate |-> ReplacementRate(replacements, words),
     replacements |-> replacements]

\* the statistics dictionary of process_text
Statistics(words, replacements) ==
    [total_words |-> Len(words),
     replacements_made |-> Len(replacements),
     replacement_rate |-> ReplacementRate(replacements, words),
     replacements |-> replacements]

\* a variant that joins the processed words with two spaces
TextResultDoubleSpaced(loop, stats) ==
    [processed_text |-> Join(loop.processed_words, <<" ", " ">>),
     statistics |-> stats,
     lookups |-> loop.lookups,
     raised |-> RaisedBy(stats.replacement_rate)]

\* return processed_text, statistics
TextResult(loop, stats) ==
    [processed_text |-> Join(loop.processed_words, <<" ">>),
     statistics |-> stats,
     lookups |-> loop.lookups,
     raised |-> RaisedBy(stats.replacement_rate)]

ProcessedWords(words, loop) == TextResult(loop, Statistics(words, loop.replacements))

ProcessWords(words, preserve) ==
    ProcessedWords(words, ProcessLoop(words, 0, preserve,
        [processed_words |-> <<>>, replacements |-> <<>>, lookups |-> <<>>]))

\* process_text(text, preserve_case): the pair returned, the calls of
\* _get_canonical made and the error raised
ProcessText(t, preserve) == ProcessWords(Split(t), preserve)

(***************************************************************************)
(* CVCProcessor.process_file and CVCProcessor.get_vocabulary_stats.        *)
(***************************************************************************)
\* open(path, 'r'): reading translates "\r\n" and "\r" to "\n"
RECURSIVE UniversalNewlines(_)
UniversalNewlines(s) ==
    IF s = <<>> THEN <<>>
    ELSE IF Head(s) = "\r"
    THEN <<"\n">> \o UniversalNewlines(
             IF Len(s) > 1 /\ s[2] = "\n" THEN SubSeq(s, 3, Len(s)) ELSE Tail(s))
    ELSE <<Head(s)>> \o UniversalNewlines(Tail(s))

\* f.readlines(): the lines, each with the "\n" that ends it
RECURSIVE ReadLinesFrom(_, _, _)
ReadLinesFrom(s, i, line) ==
    IF i > Len(s)
    THEN (IF line = <<>> THEN <<>> ELSE <<line>>)
    ELSE IF s[i] = "\n"
    THEN <<Append(line, s[i])>> \o ReadLinesFrom(s, i + 1, <<>>)
    ELSE ReadLinesFrom(s, i + 1, Append(line, s[i]))

ReadLines(content) == ReadLinesFrom(UniversalNewlines(content), 1, <<>>)

\* f.writelines(processed_lines)
RECURSIVE WriteLines(_)
WriteLines(lines) ==
    IF lines = <<>> THEN <<>> ELSE Head(lines) \o WriteLines(Tail(lines))

\* total_replacements / total_words if total_words else 0
FileReplacementRate(total_replacements, total_words) ==
    IF total_words # 0 THEN Divide(total_replacements, total_words) ELSE Zero

\* the totals assigned, not added to
AddLineOverwriting(totals, stats) ==
    [total_replacements |-> stats.replacements_made,
     total_words |-> stats.total_words]

\* the totals start again at a line without words
AddLineResettingOnBlank(totals, stats) ==
    IF stats.total_words = 0 THEN [total_replacements |-> 0, total_words |-> 0]
    ELSE [total_replacements |-> totals.total_replacements + stats.replacements_made,
          total_words |-> totals.total_words + stats.total_words]

\* total_replacements += stats['replacements_made']
\* total_words += stats['total_words']
AddLine(totals, stats) ==
    [total_replacements |-> totals.total_replacements + stats.replacements_made,
     total_words |-> totals.total_words + stats.total_words]

\* a line whose processed text is empty is left out of the output
LineProcessedSkippingBlank(acc, r) ==
    IF r.raised # "none"
    THEN [processed_lines |-> acc.processed_lines, totals |-> acc.totals,
          raised |-> r.raised]
    ELSE [processed_lines |->
              IF r.processed_text = <<>> THEN acc.processed_lines
              ELSE Append(acc.processed_lines, r.processed_text \o <<"\n">>),
          totals |-> AddLine(acc.totals, r.statistics),
          raised |-> "none"]

\* the processed text is appended without a newline of its own
LineProcessedUnterminated(acc, r) ==
    IF r.raised # "none"
    THEN [processed_lines |-> acc.processed_lines, totals |-> acc.totals,
          raised |-> r.raised]
    ELSE [processed_lines |-> Append(acc.processed_lines, r.processed_text),
          totals |-> AddLine(acc.totals, r.statistics),
          raised |-> "none"]

\* One turn of "for line in lines", r being what process_text returned
LineProcessed(acc, r) ==
    IF r.raised # "none"
    THEN [processed_lines |-> acc.processed_lines, totals |-> acc.totals,
          raised |-> r.raised]
    ELSE [processed_lines |-> Append(acc.processed_lines, r.processed_text \o <<"\n">>),
          totals |-> AddLine(acc.totals, r.statistics),
          raised |-> "none"]

\* for line in lines: ...   (lines[i + 1] in TLA+)
RECURSIVE ProcessLines(_, _, _)
ProcessLines(lines, i, acc) ==
    IF i >= Len(lines) \/ acc.raised # "none" THEN acc
    ELSE ProcessLines(lines, i + 1,
                      LineProcessed(acc, ProcessText(Strip(lines[i + 1]), TRUE)))

\* the dictionary process_file returns
FileStatistics(lines, totals) ==
    [total_lines |-> Len(lines),
     total_words |-> totals.total_words,
     total_replacements |-> totals.total_replacements,
     replacement_rate |-> FileReplacementRate(totals.total_replacements,
                                              totals.total_words)]

FileResult(loop, stats) ==
    [output_content |-> WriteLines(loop.processed_lines),
     file_stats |-> stats,
     raised |-> IF loop.raised # "none" THEN loop.raised
                ELSE RaisedBy(stats.replacement_rate)]

ProcessedLines(lines, loop) == FileResult(loop, FileStatistics(lines, loop.totals))

ProcessFileLines(lines) ==
    ProcessedLines(lines, ProcessLines(lines, 0,
        [processed_lines |-> <<>>,
         totals |-> [total_replacements |-> 0, total_words |-> 0],
         raised |-> "none"]))

\* process_file(input_file, output_file), content being what input_file holds:
\* what is written to output_file, the dictionary returned, the error raised
ProcessFile(content) == ProcessFileLines(ReadLines(content))

\* the orders in which n lines can be taken: order[k] is the index of the line
\* taken k-th
Orders(n) == {order \in [1..n -> 1..n] : \A i, j \in 1..n : order[i] = order[j] => i = j}

InOrder(lines, order) == [k \in 1..Len(order) |-> lines[order[k]]]

\* the processed lines put back at the indexes of the lines they come from
ByIndex(loop, order) ==
    IF loop.raised # "none" \/ Len(loop.processed_lines) # Len(order) THEN loop
    ELSE [loop EXCEPT !.processed_lines =
              [i \in 1..Len(order) |->
                  loop.processed_lines[CHOOSE k \in 1..Len(order) : order[k] = i]]]

\* the body of the loop of process_file run on the lines in the given order,
\* the output assembled by line index
ProcessFileReordered(lines, order) ==
    ProcessedLines(lines,
        ByIndex(ProcessLines(InOrder(lines, order), 0,
                             [processed_lines |-> <<>>,
                              totals |-> [total_replacements |-> 0, total_words |-> 0],
                              raised |-> "none"]),
                order))

\* re.findall(r'\w+', s): the maximal runs of word characters, in order
RECURSIVE FindWordsFrom(_, _, _)
FindWordsFrom(s, i, run) ==
    IF i > Len(s)
    THEN (IF run = <<>> THEN <<>> ELSE <<run>>)
    ELSE IF ~IsWordChar(s[i])
    THEN (IF run = <<>> THEN <<>> ELSE <<run>>) \o FindWordsFrom(s, i + 1, <<>>)
    ELSE FindWordsFrom(s, i + 1, Append(run, s[i]))

FindWords(s) == FindWordsFrom(s, 1, <<>>)

\* set(words)
SetOf(words) == {words[i] : i \in 1..Len(words)}

\* vocab_reduction / len(original_vocab) if original_vocab else 0
ReductionRate(vocab_reduction, original_vocab) ==
    IF original_vocab # {} THEN Divide(vocab_reduction, Cardinality(original_vocab))
    ELSE Zero

\* the dictionary with a negative reduction and its rate replaced by 0
VocabularyStatisticsClamped(original_words, original_size, processed_size, reduction_rate) ==
    [original_vocabulary_size |-> original_size,
     processed_vocabulary_size |-> processed_size,
     vocabulary_reduction |-> IF original_size < processed_size THEN 0
                              ELSE original_size - processed_size,
     reduction_rate |-> IF original_size < processed_size THEN Zero
                        ELSE reduction_rate,
     total_words |-> Len(original_words)]

\* the dictionary get_vocabulary_stats returns
VocabularyStatistics(original_words, original_size, processed_size, reduction_rate) ==
    [original_vocabulary_size |-> original_size,
     processed_vocabulary_size |-> processed_size,
     vocabulary_reduction |-> original_size - processed_size,
     reduction_rate |-> reduction_rate,
     total_words |-> Len(original_words)]

VocabularyResult(r, original_words, original_vocab, processed_vocab, reduction_rate) ==
    [vocab_stats |-> VocabularyStatistics(original_words, Cardinality(original_vocab),
                                          Cardinality(processed_vocab), reduction_rate),
     raised |-> IF r.raised # "none" THEN r.raised ELSE RaisedBy(reduction_rate)]

VocabularyReduced(r, original_words, original_vocab, processed_vocab) ==
    VocabularyResult(r, original_words, original_vocab, processed_vocab,
        ReductionRate(Cardinality(original_vocab) - Cardinality(processed_vocab),
                      original_vocab))

VocabularyProcessed(r, original_words) ==
    VocabularyReduced(r, original_words, SetOf(original_words),
                      SetOf(FindWords(StrLower(r.processed_text))))

VocabularyOf(read) ==
    VocabularyProcessed(ProcessText(read, TRUE), FindWords(StrLower(read)))

\* get_vocabulary_stats(text_file), content being what text_file holds
GetVocabularyStats(content) == VocabularyOf(UniversalNewlines(content))

(***************************************************************************)
(* Inputs: the mapping documents a processor is constructed from and the   *)
(* texts it is called with.                                                *)
(***************************************************************************)
W_Large == <<"L","a","r","g","e">>

W_Good == <<"G","o","o","d">>

W_b2b == <<"b","2","b">>

W_trade == <<"t","r","a","d","e">>

\* a hand-written document whose keys differ in case only ("large", "Large"),
\* with a canonical stored capitalized, a key that holds a digit and a key
\* whose canonical is the empty string
CaseVariantDocument ==
    [mappings |->
        << [category |-> "size_big", canonical |-> W_big, synonyms |-> <<W_large>>],
           [category |-> "quality_good", canonical |-> W_Good, synonyms |-> <<W_Large>>],
           [category |-> "noun_trade", canonical |-> W_trade, synonyms |-> <<W_b2b>>],
           [category |-> "size_none", canonical |-> <<>>, synonyms |-> <<W_huge>>] >>,
     reverse_lookup |->
        << <<W_large, W_big>>, <<W_Large, W_Good>>, <<W_b2b, W_trade>>,
           <<W_huge, <<>>>> >>]

W_small == <<"s","m","a","l","l">>

\* a document with the reverse_lookup of expand_mappings.py, mappings that
\* contradict it ("large" and "big" listed under "small") and no metadata
InconsistentDocument ==
    [mappings |->
        << [category |-> "size_small", canonical |-> W_small,
            synonyms |-> <<W_large, W_big>>] >>,
     reverse_lookup |-> ExpandedDocument.reverse_lookup]

MappingDocuments == {ExpandedDocument, CaseVariantDocument, InconsistentDocument}

\* documents that lack reverse_lookup, mappings, or both
IncompleteDocuments ==
    { [mappings |-> CaseVariantDocument.mappings, metadata |-> ExpandedMetadata],
      [reverse_lookup |-> CaseVariantDocument.reverse_lookup],
      [metadata |-> ExpandedMetadata] }

\* what the path mapping_file names: nothing, text that is not JSON, a document
MappingFiles ==
    { [kind |-> "absent"], [kind |-> "unparsable"] }
        \cup { [kind |-> "document", data |-> d] :
               d \in MappingDocuments \cup IncompleteDocuments }

U_lARGE == <<"l","A","R","G","E">>

U_The == <<"T","h","e">>

U_building_dot == <<"b","u","i","l","d","i","n","g",".">>

U_huge_wrapped == <<"(","h","u","g","e",")",",">>

U_dashes == <<"-","-">>

U_large_scale == <<"l","a","r","g","e","-","s","c","a","l","e">>

U_dont == <<"d","o","n","'","t">>

U_B2B == <<"B","2","B">>

InputUnits ==
    { W_large, W_Large, StrUpper(W_large), U_lARGE,
      W_great, W_bright, W_luminous, W_big,
      U_building_dot, U_huge_wrapped, U_dashes, U_large_scale, U_dont, U_B2B }

\* the words _get_canonical is called with: the word characters of the units
InputWords ==
    {SelectSeq(u, IsWordChar) : u \in InputUnits} \cup {W_b2b, W_fine, W_not_ever}

\* the largest number of units of a generated text
MaxUnits == 2

UnitSequences == UNION {[1..n -> InputUnits] : n \in 0..MaxUnits}

\* the units separated by single spaces
TidyText(units) == Join(units, <<" ">>)

\* the units behind a tab, separated by a space and a newline, before a space
MessyText(units) == <<"\t">> \o Join(units, <<" ", "\n">>) \o <<" ">>

ExampleTexts ==
    { TidyText(<<U_The, W_enormous, U_building_dot>>),
      TidyText(<<StrUpper(W_enormous), StrCapitalize(W_enormous), W_enormous>>),
      W_not_ever }

InputTexts ==
    {TidyText(u) : u \in UnitSequences} \cup {MessyText(u) : u \in UnitSequences}
        \cup ExampleTexts

\* lines of input files, without their terminators
L_blank == <<" ", "\t">>

L_large_building == TidyText(<<W_large, U_building_dot>>)

L_the_big_building == TidyText(<<U_The, W_big, U_building_dot>>)

L_three_synonyms == <<" ">> \o TidyText(<<StrCapitalize(W_enormous), U_huge_wrapped,
                                           StrUpper(W_large)>>)

InputLines ==
    { <<>>, L_blank, U_dashes, L_large_building, L_the_big_building, L_three_synonyms }

\* the largest number of lines of an input file
MaxLines == 2

LineSequences == UNION {[1..n -> InputLines] : n \in 0..MaxLines}

LineTerminators == { <<"\n">>, <<"\r", "\n">>, <<"\r">> }

\* the file of these lines, each ended by terminator, the last one only if final
FileOf(lines, terminator, final) ==
    WriteLines([i \in 1..Len(lines) |->
                   IF i < Len(lines) \/ final THEN lines[i] \o terminator
                   ELSE lines[i]])

InputFiles ==
    { FileOf(lines, terminator, final) :
      lines \in LineSequences, terminator \in LineTerminators, final \in BOOLEAN }

\* the files get_vocabulary_stats is called on: the input files and the
\* one-line documents of units
InputDocuments == InputFiles \cup {TidyText(u) : u \in UnitSequences}

(***************************************************************************)
(* Texts that differ in synonyms of one canonical only.                    *)
(***************************************************************************)
\* the words listed under the categories of self.mappings whose canonical is c
SynonymsOf(c) ==
    UNION { {mappings[i].synonyms[j] : j \in 1..Len(mappings[i].synonyms)} :
            i \in {k \in 1..Len(mappings) : mappings[k].canonical = c} }

Canonicals == {mappings[i].canonical : i \in 1..Len(mappings)}

CasePattern(w) ==
    IF w = StrLower(w) THEN "lower"
    ELSE IF w = StrUpper(w) THEN "upper"
    ELSE IF w = StrCapitalize(w) THEN "capitalized"
    ELSE "mixed"

WithPattern(pattern, w) ==
    IF pattern = "upper" THEN StrUpper(w)
    ELSE IF pattern = "capitalized" THEN StrCapitalize(w)
    ELSE StrLower(w)

\* the cores that may stand for core k: the other synonyms of a canonical k is
\* a synonym of, and that canonical, in the capitalization pattern of k
Interchangeable(k) ==
    IF CasePattern(k) = "mixed" THEN {}
    ELSE { WithPattern(CasePattern(k), w) :
           w \in UNION { SynonymsOf(c) \cup {c} :
                         c \in {d \in Canonicals : StrLower(k) \in SynonymsOf(d)} } }
         \ {k}

\* the texts with these units, but for unit i, whose core is exchanged
UnitVariants(units, i, match) ==
    IF ~match.matched THEN {}
    ELSE { TidyText([units EXCEPT ![i] = match.prefix \o k \o match.suffix]) :
           k \in Interchangeable(match.core_word) }

VariantsOf(units) ==
    UNION { UnitVariants(units, i, Match(units[i])) : i \in 1..Len(units) }

\* the texts with the units of t, but for one unit whose core is exchanged
SynonymVariants(t) == VariantsOf(Split(t))

(***************************************************************************)
(* The state machine: a processor is constructed, then called.             *)
(***************************************************************************)
NoStatistics ==
    [total_words |-> 0, replacements_made |-> 0, replacement_rate |-> Zero,
     replacements |-> <<>>]

NoFileStats ==
    [total_lines |-> 0, total_words |-> 0, total_replacements |-> 0,
     replacement_rate |-> Zero]

NoVocabStats ==
    [original_vocabulary_size |-> 0, processed_vocabulary_size |-> 0,
     vocabulary_reduction |-> 0, reduction_rate |-> Zero, total_words |-> 0]

\* the fields of the processor and the file they were loaded from
Processor ==
    <<mapping_file, load_error, metadata, mappings, reverse_lookup,
      case_insensitive_lookup>>

\* whether open(input_file, 'r') and f.readlines() or f.read() succeed, and
\* whether open(output_file, 'w') and f.writelines(processed_lines) succeed
SourceStates == {"readable", "unopenable", "undecodable"}

DestinationStates == {"writable", "unopenable", "unwritable"}

NoAccess == [source |-> "readable", destination |-> "writable"]

NoResult ==
    [op |-> "none", processed_text |-> <<>>, statistics |-> NoStatistics,
     output_content |-> <<>>, file_stats |-> NoFileStats,
     vocab_stats |-> NoVocabStats, raised |-> "none"]

\* the exception open(input_file, 'r') or the read of the file raises
ReadError(source) ==
    IF source = "unopenable" THEN "OSError"
    ELSE IF source = "undecodable" THEN "UnicodeDecodeError"
    ELSE "none"

\* process_file raises e: nothing is returned, and what output_file holds
\* is not looked at
FileFailure(e) ==
    [output_content |-> <<>>, file_stats |-> NoFileStats, raised |-> e]

\* the statistics returned although output_file could not be opened
WrittenToIgnoringErrors(destination, r) == r

\* with open(output_file, 'w') as f: f.writelines(processed_lines)
WrittenTo(destination, r) ==
    IF r.raised = "none" /\ destination # "writable" THEN FileFailure("OSError")
    ELSE r

\* process_file(input_file, output_file), the files being as access says
ProcessFileOn(content, access) ==
    IF ReadError(access.source) # "none"
    THEN FileFailure(ReadError(access.source))
    ELSE WrittenTo(access.destination, ProcessFile(content))

\* the paths of the files a call is given
Paths == {"input.txt", "output.txt"}

\* open(output_file, 'w'): the file is created, or emptied if it exists
OpenForWriting(files, output_file) == [files EXCEPT ![output_file] = Some(<<>>)]

\* the files after the call returned r: read and processing come first, so
\* output_file is touched only when they raised nothing
FilesAfter(files, output_file, access, r) ==
    IF r.raised = "none" THEN [files EXCEPT ![output_file] = Some(r.output_content)]
    ELSE IF ReadError(access.source) = "none" /\ access.destination = "unwritable"
    THEN OpenForWriting(files, output_file)
    ELSE files

PathsResult(files, output_file, access, r) ==
    [result |-> r, after |-> FilesAfter(files, output_file, access, r)]

\* a variant that opens output_file for writing before it reads input_file
ProcessFilePathsTruncatingFirst(files, input_file, output_file, access) ==
    IF access.destination = "unopenable"
    THEN [result |-> FileFailure("OSError"), after |-> files]
    ELSE [result |-> ProcessFileOn(OpenForWriting(files, output_file)[input_file][1],
                                   access),
          after |-> FilesAfter(OpenForWriting(files, output_file), output_file, access,
                               ProcessFileOn(
                                   OpenForWriting(files, output_file)[input_file][1],
                                   access))]

\* process_file(input_file, output_file) on the files of the disk: what it
\* returns or raises, and the files afterwards
ProcessFilePaths(files, input_file, output_file, access) ==
    PathsResult(files, output_file, access, ProcessFileOn(files[input_file][1], access))

\* the old content of an output file that exists
OldContent == <<"o", "l", "d", "\n">>

\* the calls of process_file: every way of failing when output_file is a new
\* file, and an existing output_file or input_file itself as output_file
\* when the write succeeds
FileArrangements ==
    { [output_file |-> "output.txt", old |-> None,
       access |-> [source |-> source, destination |-> destination]] :
      source \in SourceStates, destination \in DestinationStates }
    \cup
    { [output_file |-> out, old |-> IF out = "input.txt" THEN None ELSE Some(OldContent),
       access |-> [source |-> source, destination |-> "writable"]] :
      out \in Paths, source \in SourceStates }

\* get_vocabulary_stats(text_file), the file being as access says
GetVocabularyStatsOn(content, access) ==
    IF ReadError(access.source) # "none"
    THEN [vocab_stats |-> NoVocabStats, raised |-> ReadError(access.source)]
    ELSE GetVocabularyStats(content)

\* no file is involved
NoDisk ==
    [input_file |-> "", output_file |-> "",
     before |-> [p \in Paths |-> None], after |-> [p \in Paths |-> None]]

\* the variables only some of the operations use
Extras == <<disk, line_order, fault, temp_files, evaluation>>

(***************************************************************************)
(* scripts/basic_evaluation.py: the metrics computed from an original file, *)
(* its canonicalized file and the mapping document.                        *)
(***************************************************************************)
NonEmpty(line) == line # <<>>

\* load_text_file: [line.strip() for line in f if line.strip()]
LoadTextFile(content) ==
    SelectSeq([i \in 1..Len(ReadLines(content)) |-> Strip(ReadLines(content)[i])],
              NonEmpty)

\* all_words: text.lower().split() of every text, in order
RECURSIVE AllWords(_)
AllWords(texts) ==
    IF texts = <<>> THEN <<>>
    ELSE Split(StrLower(Head(texts))) \o AllWords(Tail(texts))

\* compute_vocabulary_stats, without the list most_common
ComputeVocabularyStats(texts) ==
    [total_words |-> Len(AllWords(texts)),
     unique_words |-> Cardinality(SetOf(AllWords(texts)))]

\* for synonym in mapping_data['synonyms']:
\*     reverse_lookup[synonym.lower()] = canonical
RECURSIVE AddLoweredSynonyms(_, _, _)
AddLoweredSynonyms(lookup, synonyms, canonical) ==
    IF synonyms = <<>> THEN lookup
    ELSE AddLoweredSynonyms(DictSet(lookup, StrLower(Head(synonyms)), canonical),
                            Tail(synonyms), canonical)

\* for category, mapping_data in mappings.items(): ...
RECURSIVE EvaluationLookup(_, _)
EvaluationLookup(lookup, categories) ==
    IF categories = <<>> THEN lookup
    ELSE EvaluationLookup(
             IF {"synonyms", "canonical"} \subseteq DOMAIN Head(categories)
             THEN AddLoweredSynonyms(lookup, Head(categories).synonyms,
                                     StrLower(Head(categories).canonical))
             ELSE lookup,
             Tail(categories))

\* data.get('mappings', {})
MappingsOf(data) == IF "mappings" \in DOMAIN data THEN data.mappings ELSE <<>>

ShorterOf(a, b) == IF Len(a) <= Len(b) THEN Len(a) ELSE Len(b)

\* the pairs of zip(orig_words, canon_words) that the lookup relates
PairsReplaced(orig_words, canon_words, lookup) ==
    Cardinality({k \in 1..ShorterOf(orig_words, canon_words) :
                    /\ DictHas(lookup, orig_words[k])
                    /\ DictGet(lookup, orig_words[k]) = canon_words[k]})

\* for orig, canon in zip(original_texts, canonical_texts): ...
RECURSIVE PairTotals(_, _, _, _, _)
PairTotals(original_texts, canonical_texts, lookup, i, totals) ==
    IF i >= ShorterOf(original_texts, canonical_texts) THEN totals
    ELSE PairTotals(original_texts, canonical_texts, lookup, i + 1,
             [total_words |->
                  totals.total_words + Len(Split(StrLower(original_texts[i + 1]))),
              total_replacements |->
                  totals.total_replacements
                  + PairsReplaced(Split(StrLower(original_texts[i + 1])),
                                  Split(StrLower(canonical_texts[i + 1])), lookup)])

\* total_replacements / total_words if total_words > 0 else 0
EvaluationRate(total_replacements, total_words) ==
    IF total_words > 0 THEN Divide(total_replacements, total_words) ELSE Zero

ReplacementStatsOf(totals) ==
    [total_words |-> totals.total_words,
     total_replacements |-> totals.total_replacements,
     replacement_rate |-> EvaluationRate(totals.total_replacements, totals.total_words)]

\* compute_replacement_stats(original_texts, canonical_texts, mappings_file),
\* data being the document of mappings_file
ComputeReplacementStats(original_texts, canonical_texts, data) ==
    ReplacementStatsOf(
        PairTotals(original_texts, canonical_texts,
                   EvaluationLookup(EmptyDict, MappingsOf(data)), 0,
                   [total_words |-> 0, total_replacements |-> 0]))

NoEvaluation ==
    [dataset_size |-> 0,
     original_vocabulary |-> [total_words |-> 0, unique_words |-> 0],
     canonical_vocabulary |-> [total_words |-> 0, unique_words |-> 0],
     vocabulary_reduction |-> [words_reduced |-> 0, reduction_rate |-> Zero],
     replacement_statistics |->
         [total_words |-> 0, total_replacements |-> 0, replacement_rate |-> Zero]]

\* results['vocabulary_reduction']: the quotient is taken without a guard
VocabularyReduction(orig_vocab, canon_vocab) ==
    [words_reduced |-> orig_vocab.unique_words - canon_vocab.unique_words,
     reduction_rate |-> Divide(orig_vocab.unique_words - canon_vocab.unique_words,
                               orig_vocab.unique_words)]

\* the dictionary results of main, and the exception building it raised
Results(original_texts, orig_vocab, canon_vocab, reduction, replacement_stats) ==
    [results |->
         [dataset_size |-> Len(original_texts),
          original_vocabulary |-> orig_vocab,
          canonical_vocabulary |-> canon_vocab,
          vocabulary_reduction |-> reduction,
          replacement_statistics |-> replacement_stats],
     raised |-> RaisedBy(reduction.reduction_rate)]

Evaluated(original_texts, orig_vocab, canon_vocab, replacement_stats) ==
    Results(original_texts, orig_vocab, canon_vocab,
            VocabularyReduction(orig_vocab, canon_vocab), replacement_stats)

EvaluationOf(original_texts, canonical_texts, data) ==
    Evaluated(original_texts, ComputeVocabularyStats(original_texts),
              ComputeVocabularyStats(canonical_texts),
              ComputeReplacementStats(original_texts, canonical_texts, data))

\* main with --original, --canonical and --mappings naming files that hold
\* original, canonical and the document data
Main(original, canonical, data) ==
    EvaluationOf(LoadTextFile(original), LoadTextFile(canonical), data)

(***************************************************************************)
(* RustCVCProcessor of scripts/apply_cvc_rust.py: the same calls made      *)
(* through the rust_cvc command-line tool.  The tool itself is not part of *)
(* the scripts; RunBinary gives it the behaviour of the subprocess         *)
(* contract: it writes the canonicalized file and, with --stats, prints    *)
(* the statistics as lines "Label: value".                                 *)
(***************************************************************************)
\* the canonicalized file: every line of the input canonicalized, cased as the
\* original when preserve is set, and ended by a newline
CanonicalizedFile(content, preserve) ==
    WriteLines([i \in 1..Len(ReadLines(content)) |->
                   ProcessText(Strip(ReadLines(content)[i]), preserve).processed_text
                   \o <<"\n">>])

\* a rate as the tool prints it, "12.34%": the hundredths of a percent
Percent(rate) ==
    IF rate.kind # "value" \/ rate.den = 0 THEN 0
    ELSE (20000 * rate.num + rate.den) \div (2 * rate.den)

\* the lines printed with --stats, by label
Report(of_file, of_vocabulary) ==
    [total_lines |-> of_file.total_lines,
     total_words |-> of_file.total_words,
     total_replacements |-> of_file.total_replacements,
     replacement_rate |-> Percent(of_file.replacement_rate),
     original_vocabulary_size |-> of_vocabulary.original_vocabulary_size,
     processed_vocabulary_size |-> of_vocabulary.processed_vocabulary_size,
     vocabulary_reduction |-> of_vocabulary.vocabulary_reduction,
     reduction_rate |-> Percent(of_vocabulary.reduction_rate)]

\* nothing is printed without --stats
NoReport == <<>>

\* the run of the tool with the flags of cmd on an input file holding content
RunBinary(cmd, content) ==
    [output |-> CanonicalizedFile(content, "--preserve-case" \in cmd),
     stdout |-> IF "--stats" \in cmd
                THEN Report(ProcessFile(content).file_stats,
                            GetVocabularyStats(content).vocab_stats)
                ELSE NoReport]

\* cmd of process_text: --preserve-case is appended when preserve_case is set
TextCommand(preserve) ==
    {"--mapping", "--input", "--output"}
    \cup (IF preserve THEN {"--preserve-case"} ELSE {})

\* cmd of process_file
FileCommand == {"--mapping", "--input", "--output", "--stats"}

\* the step of a call that fails
RustFaults ==
    {"none", "create_input", "write_input", "create_output", "subprocess",
     "read_output", "unlink_input", "unlink_output"}

\* the temporary files of process_text
TempFiles == {"input_file_path", "output_file_path"}

\* the finally clause: os.unlink of the two files in one try, OSError dropped
Unlinked(files, f) ==
    IF f = "unlink_input" THEN files
    ELSE IF f = "unlink_output" THEN files \ {"input_file_path"}
    ELSE {}

RustFailure(e, files) ==
    [processed_text |-> <<>>, statistics |-> NoStatistics, raised |-> e,
     temp_files |-> files]

\* float(value.rstrip('%')) / 100.0
ParsedRate(percent) == [kind |-> "value", num |-> percent, den |-> 10000]

\* the dictionary process_text builds instead of reading the tool's counts
RustStatistics(t) ==
    [total_words |-> Len(Split(t)),
     replacements_made |-> 0,
     replacement_rate |-> Zero,
     replacements |-> <<>>]

\* the try block of process_text, run being what the tool did
RustTextBody(t, f, run) ==
    IF f = "subprocess" THEN RustFailure("CalledProcessError", TempFiles)
    ELSE IF f = "read_output" THEN RustFailure("OSError", TempFiles)
    ELSE [processed_text |-> run.output, statistics |-> RustStatistics(t),
          raised |-> "none", temp_files |-> TempFiles]

RustCleanedUp(f, r) == [r EXCEPT !.temp_files = Unlinked(r.temp_files, f)]

\* RustCVCProcessor.process_text(t, preserve) when step f fails
RustProcessText(t, preserve, f) ==
    IF f = "create_input" THEN RustFailure("OSError", {})
    ELSE IF f = "write_input" THEN RustFailure("OSError", {"input_file_path"})
    ELSE IF f = "create_output" THEN RustFailure("OSError", {"input_file_path"})
    ELSE RustCleanedUp(f, RustTextBody(t, f, RunBinary(TextCommand(preserve), t)))

\* the dictionary process_file parses from the lines the tool printed
ParsedReport(stdout) ==
    [total_lines |-> stdout.total_lines,
     total_words |-> stdout.total_words,
     total_replacements |-> stdout.total_replacements,
     replacement_rate |-> ParsedRate(stdout.replacement_rate),
     original_vocabulary_size |-> stdout.original_vocabulary_size,
     processed_vocabulary_size |-> stdout.processed_vocabulary_size,
     vocabulary_reduction |-> stdout.vocabulary_reduction,
     reduction_rate |-> ParsedRate(stdout.reduction_rate)]

RustFileResult(run) ==
    [output_content |-> run.output, file_stats |-> ParsedReport(run.stdout),
     raised |-> "none"]

\* RustCVCProcessor.process_file(input_file, output_file) when step f fails
RustProcessFile(content, f) ==
    IF f = "subprocess" THEN FileFailure("CalledProcessError")
    ELSE RustFileResult(RunBinary(FileCommand, content))

\* stats.get(key, default)
StatsGet(stats, key, default) == IF key \in DOMAIN stats THEN stats[key] ELSE default

RustVocabulary(f, r) ==
    IF r.raised # "none"
    THEN [vocab_stats |-> NoVocabStats, raised |-> r.raised, temp_files |-> {}]
    ELSE [vocab_stats |->
              [original_vocabulary_size |->
                   StatsGet(r.file_stats, "original_vocabulary_size", 0),
               processed_vocabulary_size |->
                   StatsGet(r.file_stats, "processed_vocabulary_size", 0),
               vocabulary_reduction |-> StatsGet(r.file_stats, "vocabulary_reduction", 0),
               reduction_rate |-> StatsGet(r.file_stats, "reduction_rate", Zero),
               total_words |-> StatsGet(r.file_stats, "total_words", 0)],
          raised |-> "none",
          temp_files |-> IF f = "unlink_output" THEN {"temp_output"} ELSE {}]

\* RustCVCProcessor.get_vocabulary_stats(text_file) when step f fails
RustGetVocabularyStats(content, f) ==
    IF f = "create_output"
    THEN [vocab_stats |-> NoVocabStats, raised |-> "OSError", temp_files |-> {}]
    ELSE RustVocabulary(f, RustProcessFile(content, f))

\* nothing is being called: only the processor's fields hold values
Idle ==
    /\ op' = "idle"
    /\ text' = <<>>
    /\ preserve_case' = TRUE
    /\ processed_text' = <<>>
    /\ statistics' = NoStatistics
    /\ lookups' = <<>>
    /\ lookup_word' = <<>>
    /\ lookup_result' = None
    /\ prev_processed' = <<>>
    /\ input_content' = <<>>
    /\ output_content' = <<>>
    /\ file_stats' = NoFileStats
    /\ vocab_stats' = NoVocabStats
    /\ file_access' = NoAccess
    /\ prev_result' = NoResult
    /\ raised' = "none"
    /\ disk' = NoDisk
    /\ line_order' = <<>>
    /\ fault' = "none"
    /\ temp_files' = {}
    /\ evaluation' = NoEvaluation

\* the state after CVCProcessor(mapping_file) returned or raised r
InitFrom(file, r) ==
    /\ mapping_file = file
    /\ load_error = r.raised
    /\ metadata = r.metadata
    /\ reverse_lookup = r.reverse_lookup
    /\ mappings = r.mappings
    /\ case_insensitive_lookup = r.case_insensitive_lookup
    /\ op = "idle"
    /\ text = <<>>
    /\ preserve_case = TRUE
    /\ processed_text = <<>>
    /\ statistics = NoStatistics
    /\ lookups = <<>>
    /\ lookup_word = <<>>
    /\ lookup_result = None
    /\ prev_processed = <<>>
    /\ input_content = <<>>
    /\ output_content = <<>>
    /\ file_stats = NoFileStats
    /\ vocab_stats = NoVocabStats
    /\ file_access = NoAccess
    /\ prev_result = NoResult
    /\ raised = "none"
    /\ disk = NoDisk
    /\ line_order = <<>>
    /\ fault = "none"
    /\ temp_files = {}
    /\ evaluation = NoEvaluation

\* CVCProcessor(mapping_file)
Init == \E file \in MappingFiles : InitFrom(file, Load(file))

\* the variables a call of process_text leaves alone, the fields apart
TextFrame ==
    <<lookup_word, lookup_result, input_content, output_content, file_stats,
      vocab_stats, file_access, prev_result, Extras>>

\* the returned values of a call of process_text
TextValues(name, t, preserve, previous, r) ==
    /\ op' = name
    /\ text' = t
    /\ preserve_case' = preserve
    /\ raised' = r.raised
    /\ processed_text' = IF r.raised = "none" THEN r.processed_text ELSE <<>>
    /\ statistics' = IF r.raised = "none" THEN r.statistics ELSE NoStatistics
    /\ lookups' = r.lookups
    /\ prev_processed' = previous
    /\ UNCHANGED TextFrame

\* the first replacement of the call is stored in reverse_lookup under the
\* spelling it was found in
TextReturnedLearning(name, t, preserve, previous, r) ==
    /\ TextValues(name, t, preserve, previous, r)
    /\ reverse_lookup' =
           IF r.raised = "none" /\ r.statistics.replacements # <<>>
           THEN DictSet(reverse_lookup, r.statistics.replacements[1].original,
                        r.statistics.replacements[1].canonical)
           ELSE reverse_lookup
    /\ UNCHANGED <<mapping_file, load_error, metadata, mappings,
                   case_insensitive_lookup>>

\* the call processor.process_text(t, preserve_case) returns r
TextReturned(name, t, preserve, previous, r) ==
    /\ TextValues(name, t, preserve, previous, r)
    /\ UNCHANGED Processor

CallProcessText(name, t, preserve, previous) ==
    TextReturned(name, t, preserve, previous, ProcessText(t, preserve))

\* processor.process_text(t, preserve) on a text of the caller
ProcessTextCall ==
    /\ op = "idle"
    /\ load_error = "none"
    /\ \E t \in InputTexts, preserve \in BOOLEAN :
           CallProcessText("process_text", t, preserve, <<>>)

\* processor.process_text on the text the last call returned
ReprocessCall ==
    /\ op = "process_text"
    /\ raised = "none"
    /\ CallProcessText("reprocess", processed_text, preserve_case, processed_text)

\* processor.process_text on a text that says the same in other synonyms
VariantCall ==
    /\ op = "process_text"
    /\ raised = "none"
    /\ \E t \in SynonymVariants(text) :
           CallProcessText("variant", t, preserve_case, processed_text)

\* the call processor.process_file(input_file, output_file) returns r
FileReturned(name, content, access, r) ==
    /\ op' = name
    /\ input_content' = content
    /\ file_access' = access
    /\ raised' = r.raised
    /\ output_content' = IF r.raised = "none" THEN r.output_content ELSE <<>>
    /\ file_stats' = IF r.raised = "none" THEN r.file_stats ELSE NoFileStats
    /\ UNCHANGED <<Processor, text, preserve_case, processed_text, statistics,
                   lookups, lookup_word, lookup_result, prev_processed,
                   vocab_stats, prev_result, line_order, fault, temp_files,
                   evaluation>>

\* the files on disk when the call is made: input_file holds content, and
\* output_file, when it is another file, holds old or does not exist
DiskOf(content, old) ==
    [p \in Paths |-> IF p = "input.txt" THEN Some(content) ELSE old]

\* the call returns pr, having been given the paths of d
PathsReturned(name, d, access, pr) ==
    /\ FileReturned(name, d.before[d.input_file][1], access, pr.result)
    /\ disk' = [d EXCEPT !.after = pr.after]

CallProcessFile(name, d, access) ==
    PathsReturned(name, d, access,
                  ProcessFilePaths(d.before, d.input_file, d.output_file, access))

\* processor.process_file(input_file, output_file) on files of the caller
ProcessFileCall ==
    /\ op = "idle"
    /\ load_error = "none"
    /\ \E content \in InputFiles, arrangement \in FileArrangements :
           CallProcessFile("process_file",
                           [input_file |-> "input.txt",
                            output_file |-> arrangement.output_file,
                            before |-> DiskOf(content, arrangement.old),
                            after |-> DiskOf(content, arrangement.old)],
                           arrangement.access)

\* the call processor.get_vocabulary_stats(text_file) returns r
VocabularyReturned(name, content, access, r) ==
    /\ op' = name
    /\ input_content' = content
    /\ file_access' = access
    /\ raised' = r.raised
    /\ vocab_stats' = IF r.raised = "none" THEN r.vocab_stats ELSE NoVocabStats
    /\ UNCHANGED <<Processor, text, preserve_case, processed_text, statistics,
                   lookups, lookup_word, lookup_result, prev_processed,
                   output_content, file_stats, prev_result, Extras>>

CallGetVocabularyStats(name, content, access) ==
    VocabularyReturned(name, content, access, GetVocabularyStatsOn(content, access))

\* processor.get_vocabulary_stats(text_file) on a file of the caller
GetVocabularyStatsCall ==
    /\ op = "idle"
    /\ load_error = "none"
    /\ \E content \in InputDocuments, source \in SourceStates :
           CallGetVocabularyStats("get_vocabulary_stats", content,
                                  [source |-> source, destination |-> "writable"])

\* processor._get_canonical(w) on a word of the caller
GetCanonicalCall ==
    /\ op = "idle"
    /\ load_error = "none"
    /\ \E w \in InputWords :
           /\ op' = "get_canonical"
           /\ lookup_word' = w
           /\ lookup_result' = GetCanonical(w)
    /\ UNCHANGED <<Processor, text, preserve_case, processed_text, statistics,
                   lookups, prev_processed, input_content, output_content,
                   file_stats, vocab_stats, file_access, prev_result, raised,
                   Extras>>

\* the processor is replaced by CVCProcessor(file)
Rebuilt(file, r) ==
    /\ mapping_file' = file
    /\ load_error' = r.raised
    /\ metadata' = r.metadata
    /\ reverse_lookup' = r.reverse_lookup
    /\ mappings' = r.mappings
    /\ case_insensitive_lookup' = r.case_insensitive_lookup

RebuiltFrom(file, r) ==
    /\ r.raised = "none"
    /\ r.reverse_lookup = reverse_lookup
    /\ Rebuilt(file, r)

\* after a call, a second processor is constructed from another document
\* that holds the same reverse_lookup; the call is to be made again on it
Reconstruct ==
    /\ op \in {"process_text", "process_file", "get_vocabulary_stats"}
    /\ \E file \in MappingFiles \ {mapping_file} : RebuiltFrom(file, Load(file))
    /\ op' = "reconstructed"
    /\ prev_result' =
           [op |-> op, processed_text |-> processed_text,
            statistics |-> statistics, output_content |-> output_content,
            file_stats |-> file_stats, vocab_stats |-> vocab_stats,
            raised |-> raised]
    /\ UNCHANGED <<text, preserve_case, processed_text, statistics, lookups,
                   lookup_word, lookup_result, prev_processed, input_content,
                   output_content, file_stats, vocab_stats, file_access, raised,
                   Extras>>

\* the call made before the processor was rebuilt, made again
RepeatCall ==
    /\ op = "reconstructed"
    /\ IF prev_result.op = "process_text"
       THEN CallProcessText("repeat", text, preserve_case, prev_processed)
       ELSE IF prev_result.op = "process_file"
       THEN CallProcessFile("repeat", [disk EXCEPT !.after = disk.before], file_access)
       ELSE CallGetVocabularyStats("repeat", input_content, file_access)

\* the texts and files the calls through the tool are made on
RustTexts == ExampleTexts \cup {<<>>, W_large, L_three_synonyms}

RustFiles == {FileOf(lines, "\n", TRUE) : lines \in LineSequences}

\* the call rust_processor.process_text(t, preserve) returns r
RustTextReturned(t, preserve, f, r) ==
    /\ op' = "rust_process_text"
    /\ text' = t
    /\ preserve_case' = preserve
    /\ fault' = f
    /\ raised' = r.raised
    /\ processed_text' = r.processed_text
    /\ statistics' = r.statistics
    /\ temp_files' = r.temp_files
    /\ UNCHANGED <<Processor, lookups, lookup_word, lookup_result, prev_processed,
                   input_content, output_content, file_stats, vocab_stats,
                   file_access, prev_result, disk, line_order, evaluation>>

\* rust_processor.process_text(t, preserve) on a text of the caller
RustProcessTextCall ==
    /\ op = "idle"
    /\ load_error = "none"
    /\ \E t \in RustTexts, preserve \in BOOLEAN, f \in RustFaults :
           /\ f = "write_input" => t # <<>>
           /\ RustTextReturned(t, preserve, f, RustProcessText(t, preserve, f))

\* the call rust_processor.process_file(input_file, output_file) returns r
RustFileReturned(content, f, r) ==
    /\ op' = "rust_process_file"
    /\ input_content' = content
    /\ fault' = f
    /\ raised' = r.raised
    /\ output_content' = r.output_content
    /\ file_stats' = r.file_stats
    /\ UNCHANGED <<Processor, text, preserve_case, processed_text, statistics,
                   lookups, lookup_word, lookup_result, prev_processed,
                   vocab_stats, file_access, prev_result, disk, line_order,
                   temp_files, evaluation>>

\* rust_processor.process_file(input_file, output_file) on a file of the caller
RustProcessFileCall ==
    /\ op = "idle"
    /\ load_error = "none"
    /\ \E content \in RustFiles, f \in {"none", "subprocess"} :
           RustFileReturned(content, f, RustProcessFile(content, f))

\* the call rust_processor.get_vocabulary_stats(text_file) returns r
RustVocabularyReturned(content, f, r) ==
    /\ op' = "rust_get_vocabulary_stats"
    /\ input_content' = content
    /\ fault' = f
    /\ raised' = r.raised
    /\ vocab_stats' = r.vocab_stats
    /\ temp_files' = r.temp_files
    /\ UNCHANGED <<Processor, text, preserve_case, processed_text, statistics,
                   lookups, lookup_word, lookup_result, prev_processed,
                   output_content, file_stats, file_access, prev_result, disk,
                   line_order, evaluation>>

\* rust_processor.get_vocabulary_stats(text_file) on a file of the caller
RustGetVocabularyStatsCall ==
    /\ op = "idle"
    /\ load_error = "none"
    /\ \E content \in RustFiles,
          f \in {"none", "create_output", "subprocess", "unlink_output"} :
           RustVocabularyReturned(content, f, RustGetVocabularyStats(content, f))

\* basic_evaluation.main returns or raises r
EvaluationReturned(original, canonical, r) ==
    /\ op' = "basic_evaluation"
    /\ input_content' = original
    /\ output_content' = canonical
    /\ raised' = r.raised
    /\ evaluation' = IF r.raised = "none" THEN r.results ELSE NoEvaluation
    /\ UNCHANGED <<Processor, text, preserve_case, processed_text, statistics,
                   lookups, lookup_word, lookup_result, prev_processed,
                   file_stats, vocab_stats, file_access, prev_result, disk,
                   line_order, fault, temp_files>>

\* basic_evaluation.py run on an original file, on the file process_file
\* wrote for it or an empty file, and on the mapping file of the processor
BasicEvaluationCall ==
    /\ op = "idle"
    /\ load_error = "none"
    /\ \E original \in RustFiles :
           \E canonical \in {ProcessFile(original).output_content, <<>>} :
               EvaluationReturned(original, canonical,
                                  Main(original, canonical, mapping_file.data))

\* the values the last call returned
LastResult ==
    [op |-> op, processed_text |-> processed_text,
     statistics |-> statistics, output_content |-> output_content,
     file_stats |-> file_stats, vocab_stats |-> vocab_stats,
     raised |-> raised]

\* the lines of the file process_file was called on are processed again, in
\* another order, as workers would that take one line each
ReorderedReturned(order, r) ==
    /\ op' = "reordered"
    /\ line_order' = order
    /\ prev_result' = LastResult
    /\ raised' = r.raised
    /\ output_content' = r.output_content
    /\ file_stats' = r.file_stats
    /\ UNCHANGED <<Processor, text, preserve_case, processed_text, statistics,
                   lookups, lookup_word, lookup_result, prev_processed,
                   input_content, vocab_stats, file_access, disk, fault,
                   temp_files, evaluation>>

ReorderedCall ==
    /\ op = "process_file"
    /\ raised = "none"
    /\ disk.before[disk.output_file] = None
    /\ \E order \in Orders(Len(ReadLines(input_content))) :
           ReorderedReturned(order, ProcessFileReordered(ReadLines(input_content), order))

\* the call has returned
Return ==
    /\ op # "idle"
    /\ Idle
    /\ UNCHANGED Processor

Next ==
    \/ ProcessTextCall
    \/ ReprocessCall
    \/ VariantCall
    \/ GetCanonicalCall
    \/ ProcessFileCall
    \/ GetVocabularyStatsCall
    \/ Reconstruct
    \/ RepeatCall
    \/ ReorderedCall
    \/ RustProcessTextCall
    \/ RustProcessFileCall
    \/ RustGetVocabularyStatsCall
    \/ BasicEvaluationCall
    \/ Return

Spec == Init /\ [][Next]_vars

(***************************************************************************)
(* Properties of the arguments and the results of the last call.           *)
(***************************************************************************)
TextOps == {"process_text", "reprocess", "variant"}

\* the whitespace-delimited units of the argument and of the returned text
InUnits == Split(text)

OutUnits == Split(processed_text)

HasWordChar(u) == \E i \in 1..Len(u) : IsWordChar(u[i])

\* u is non-word characters, one run of word characters, non-word characters
SingleRun(u) ==
    \E a \in 1..Len(u) : \E b \in a..Len(u) :
        \A i \in 1..Len(u) : IsWordChar(u[i]) <=> (a <= i /\ i <= b)

\* the word characters of u: its core when u is a single run
WordCharsOf(u) == SelectSeq(u, IsWordChar)

\* the characters of u before its first, and after its last, word character
LeadingPunctuation(u) ==
    SubSeq(u, 1, Cardinality({i \in 1..Len(u) : \A j \in 1..i : ~IsWordChar(u[j])}))

TrailingPunctuation(u) ==
    SubSeq(u, Len(u) + 1
              - Cardinality({i \in 1..Len(u) : \A j \in i..Len(u) : ~IsWordChar(u[j])}),
           Len(u))

\* the canonicals stored under the exact key w, and under the folded key of w
ExactValues(w) ==
    {reverse_lookup[i][2] : i \in {j \in 1..Len(reverse_lookup) : reverse_lookup[j][1] = w}}

FoldedValues(w) ==
    {case_insensitive_lookup[i][2] :
        i \in {j \in 1..Len(case_insensitive_lookup) :
                  case_insensitive_lookup[j][1] = StrLower(w)}}

\* the canonicals w resolves to: those of the exact key if there is one, else
\* those of the folded key (a set of at most one word)
StoredValues(w) == IF ExactValues(w) # {} THEN ExactValues(w) ELSE FoldedValues(w)

\* the records of the returned statistics that carry 0-based position p
RecordsAt(p) ==
    {j \in 1..Len(statistics.replacements) : statistics.replacements[j].position = p}

LookupsAt(p) == {j \in 1..Len(lookups) : lookups[j].position = p}

\* C1: under the mapping table expand_mappings.py writes, process_text applied
\* to a text process_text returned returns that text again and makes no
\* replacement.
C1_Idempotent ==
    (op = "reprocess" /\ reverse_lookup = ExpandedDocument.reverse_lookup) =>
        /\ processed_text = text
        /\ statistics.replacements_made = 0

\* C2: under the mapping table expand_mappings.py writes and with preserve_case
\* true, two texts that differ only in which synonym of one canonical (or the
\* canonical itself) stands at some unit, in the same capitalization and with
\* the same punctuation, are processed to the same text.
C2_VariantsConverge ==
    (op = "variant" /\ preserve_case /\ mappings = ExpandedMappings) =>
        processed_text = prev_processed

\* C3: _get_canonical returns the canonical of the exact key when the word is a
\* key of reverse_lookup, else the canonical of the lowercased word in the
\* case-insensitive index when that key exists, else None.
C3_ResolvePriority ==
    op = "get_canonical" =>
        IF ExactValues(lookup_word) # {}
        THEN lookup_result # None /\ lookup_result[1] \in ExactValues(lookup_word)
        ELSE IF FoldedValues(lookup_word) # {}
        THEN lookup_result # None /\ lookup_result[1] \in FoldedValues(lookup_word)
        ELSE lookup_result = None

\* an exact key whose canonical differs from the one its folded key holds
C3_Witness ==
    /\ op = "get_canonical"
    /\ lookup_word = W_large
    /\ ExactValues(lookup_word) = {W_big}
    /\ FoldedValues(lookup_word) = {W_Good}
    /\ lookup_result = Some(W_big)

\* the canonical c in the capitalization of core, as the case policy states it
ExpectedCase(core, c, preserve) ==
    IF ~preserve THEN c
    ELSE IF (\E i \in 1..Len(core) : core[i] \in UpperChars)
            /\ (\A i \in 1..Len(core) : core[i] \notin LowerChars)
    THEN [i \in 1..Len(c) |-> CharUpper(c[i])]
    ELSE IF core[1] \in UpperChars
    THEN <<CharUpper(c[1])>> \o [i \in 1..(Len(c) - 1) |-> CharLower(c[i + 1])]
    ELSE [i \in 1..Len(c) |-> CharLower(c[i])]

\* C4: a replaced core is emitted as the stored canonical when preserve_case is
\* false; else uppercased when the core is all capitals, else capitalized when
\* the core starts with a capital, else lowercased.
C4_CasePolicy ==
    op \in TextOps =>
        LET given == InUnits
            emitted == OutUnits
        IN  /\ Len(emitted) = Len(given)
            /\ \A j \in 1..Len(statistics.replacements) :
                   LET r == statistics.replacements[j]
                   IN  /\ r.position + 1 \in 1..Len(given)
                       /\ \E c \in StoredValues(r.original) :
                              /\ r.canonical = ExpectedCase(r.original, c, preserve_case)
                              /\ emitted[r.position + 1] =
                                     LeadingPunctuation(given[r.position + 1])
                                         \o ExpectedCase(r.original, c, preserve_case)
                                         \o TrailingPunctuation(given[r.position + 1])

\* ENORMOUS, Enormous, enormous become BIG, Big, big
C4_Witness ==
    /\ op = "process_text"
    /\ preserve_case
    /\ text = TidyText(<<StrUpper(W_enormous), StrCapitalize(W_enormous), W_enormous>>)
    /\ processed_text = <<"B","I","G"," ","B","i","g"," ","b","i","g">>

\* C5 as stated: a unit is passed through without a lookup exactly when it holds
\* no word character; every unit that holds a word character is looked up.
C5_WordCharIsCandidate ==
    op \in TextOps =>
        LET given == InUnits
            emitted == OutUnits
        IN  /\ Len(emitted) = Len(given)
            /\ \A i \in 1..Len(given) :
                   ~HasWordChar(given[i]) <=> (LookupsAt(i - 1) = {} /\ emitted[i] = given[i])

\* C5 amended: a unit is passed through without a lookup exactly when it is not
\* a single run of word characters between non-word characters; the core of
\* every unit of that form is looked up.
C5_SingleRunIsCandidate ==
    op \in TextOps =>
        LET given == InUnits
            emitted == OutUnits
        IN  /\ Len(emitted) = Len(given)
            /\ \A i \in 1..Len(given) :
                   IF SingleRun(given[i])
                   THEN \E j \in LookupsAt(i - 1) : lookups[j].word = WordCharsOf(given[i])
                   ELSE LookupsAt(i - 1) = {} /\ emitted[i] = given[i]

\* "large-scale" holds word characters and is not looked up
C5_Witness ==
    /\ op = "process_text"
    /\ text = U_large_scale
    /\ lookups = <<>>
    /\ processed_text = U_large_scale

C7_PassThrough ==
    op \in TextOps =>
        LET given == InUnits
            emitted == OutUnits
        IN  /\ raised = "none"
            /\ Len(emitted) = Len(given)
            /\ \A i \in 1..Len(given) :
                   (SingleRun(given[i]) /\ StoredValues(WordCharsOf(given[i])) = {}) =>
                       /\ emitted[i] = given[i]
                       /\ RecordsAt(i - 1) = {}

\* "building." stays "building."
C7_Witness ==
    /\ op = "process_text"
    /\ text = U_building_dot
    /\ processed_text = U_building_dot
    /\ statistics.replacements = <<>>

\* the number of whitespace-delimited units of t: the characters that start one
CountUnits(t) ==
    Cardinality({i \in 1..Len(t) : ~IsSpace(t[i]) /\ (i = 1 \/ IsSpace(t[i - 1]))})

\* C8: total_words is the number of whitespace-delimited units, replacements_made
\* the length of replacements, replacement_rate their quotient, and
\* 0 <= replacements_made <= total_words.
C8_Statistics ==
    op \in TextOps =>
        /\ statistics.total_words = CountUnits(text)
        /\ statistics.replacements_made = Len(statistics.replacements)
        /\ statistics.total_words > 0 =>
               /\ statistics.replacement_rate.kind = "value"
               /\ statistics.replacement_rate.num * statistics.total_words
                      = statistics.replacements_made * statistics.replacement_rate.den
        /\ 0 <= statistics.replacements_made
        /\ statistics.replacements_made <= statistics.total_words

\* "-- large": the unit without a word counts, one of two units is replaced
C8_Witness ==
    /\ op = "process_text"
    /\ text = TidyText(<<U_dashes, W_large>>)
    /\ statistics.total_words = 2
    /\ statistics.replacements_made = 1
    /\ statistics.replacement_rate = [kind |-> "value", num |-> 1, den |-> 2]

IsZeroRate(rate) == rate.kind = "value" /\ rate.num = 0 /\ rate.den # 0

\* C9: process_text on an empty or whitespace-only text, process_file on a file
\* that is empty or holds blank lines only, and get_vocabulary_stats on a file
\* without word characters return zero counts and a rate of 0, and raise nothing.
C9_RateGuard ==
    /\ (op = "process_text" /\ \A i \in 1..Len(text) : IsSpace(text[i])) =>
           /\ raised = "none"
           /\ statistics.total_words = 0
           /\ statistics.replacements_made = 0
           /\ IsZeroRate(statistics.replacement_rate)
    /\ (op = "process_file" /\ file_access = NoAccess
            /\ \A i \in 1..Len(input_content) : IsSpace(input_content[i])) =>
           /\ raised = "none"
           /\ file_stats.total_words = 0
           /\ file_stats.total_replacements = 0
           /\ IsZeroRate(file_stats.replacement_rate)
    /\ (op = "get_vocabulary_stats" /\ file_access = NoAccess
            /\ \A i \in 1..Len(input_content) : ~IsWordChar(input_content[i])) =>
           /\ raised = "none"
           /\ vocab_stats.original_vocabulary_size = 0
           /\ vocab_stats.processed_vocabulary_size = 0
           /\ vocab_stats.vocabulary_reduction = 0
           /\ vocab_stats.total_words = 0
           /\ IsZeroRate(vocab_stats.reduction_rate)

\* a file of two blank lines is processed to two empty lines and a rate of 0
C9_Witness ==
    /\ op = "process_file"
    /\ input_content = <<" ", "\t", "\n", "\n">>
    /\ output_content = <<"\n", "\n">>
    /\ file_stats.total_lines = 2
    /\ file_stats.total_words = 0
    /\ IsZeroRate(file_stats.replacement_rate)

\* the statistics process_text returns for each line of the file read
StatisticsOfLines(lines) ==
    [i \in 1..Len(lines) |-> ProcessText(Strip(lines[i]), TRUE).statistics]

LineStatistics(content) == StatisticsOfLines(ReadLines(content))

RECURSIVE SumTo(_, _, _)
SumTo(stats, n, words) ==
    IF n = 0 THEN 0
    ELSE SumTo(stats, n - 1, words)
             + (IF words THEN stats[n].total_words ELSE stats[n].replacements_made)

\* C10: total_words and total_replacements of process_file are the sums of the
\* per-line total_words and replacements_made, and replacement_rate is the
\* quotient of the two sums.
C10_FileAggregation ==
    (op = "process_file" /\ file_access = NoAccess) =>
        LET lines == LineStatistics(input_content)
        IN  /\ raised = "none"
            /\ file_stats.total_words = SumTo(lines, Len(lines), TRUE)
            /\ file_stats.total_replacements = SumTo(lines, Len(lines), FALSE)
            /\ file_stats.total_words > 0 =>
                   /\ file_stats.replacement_rate.kind = "value"
                   /\ file_stats.replacement_rate.num * file_stats.total_words
                          = file_stats.total_replacements
                                * file_stats.replacement_rate.den

\* 2 words with 1 replacement and 3 words with 0 replacements give 5, 1 and 1/5
C10_Witness ==
    /\ op = "process_file"
    /\ input_content = L_large_building \o <<"\n">> \o L_the_big_building \o <<"\n">>
    /\ file_stats.total_words = 5
    /\ file_stats.total_replacements = 1
    /\ file_stats.replacement_rate.num * 5 = file_stats.replacement_rate.den

\* the lines of a text file, without the "\n", "\r\n" or "\r" that ends each
RECURSIVE TextLinesFrom(_, _, _)
TextLinesFrom(s, i, line) ==
    IF i > Len(s)
    THEN (IF line = <<>> THEN <<>> ELSE <<line>>)
    ELSE IF s[i] = "\n"
    THEN <<line>> \o TextLinesFrom(s, i + 1, <<>>)
    ELSE IF s[i] = "\r"
    THEN <<line>> \o TextLinesFrom(s, IF i < Len(s) /\ s[i + 1] = "\n"
                                      THEN i + 2 ELSE i + 1, <<>>)
    ELSE TextLinesFrom(s, i + 1, Append(line, s[i]))

TextLines(s) == TextLinesFrom(s, 1, <<>>)

\* C11: for an input file of N lines, process_file writes exactly N lines and
\* reports total_lines = N, and output line i is process_text of input line i.
C11_LinesPreserved ==
    (op = "process_file" /\ raised = "none") =>
        LET given == TextLines(input_content)
            written == TextLines(output_content)
        IN  /\ Len(written) = Len(given)
            /\ file_stats.total_lines = Len(given)
            /\ \A i \in 1..Len(given) :
                   i <= Len(written)
                       /\ written[i] = ProcessText(given[i], TRUE).processed_text

\* two lines, the second one unterminated, are written as two lines in order
C11_Witness ==
    /\ op = "process_file"
    /\ raised = "none"
    /\ input_content = L_large_building \o <<"\r", "\n">> \o L_the_big_building
    /\ output_content = TidyText(<<W_big, U_building_dot>>) \o <<"\n">>
                            \o L_the_big_building \o <<"\n">>
    /\ file_stats.total_lines = 2

\* the number of characters c of s
RECURSIVE CountOf(_, _)
CountOf(s, c) ==
    IF s = <<>> THEN 0 ELSE (IF Head(s) = c THEN 1 ELSE 0) + CountOf(Tail(s), c)

\* C12: the file process_file writes holds one "\n" for each input line and
\* no other terminator, ends with "\n" unless no line was read, and holds an
\* empty line for each input line that is blank.
C12_NewlineNormalized ==
    (op = "process_file" /\ raised = "none") =>
        LET given == TextLines(input_content)
            written == TextLines(output_content)
        IN  /\ CountOf(output_content, "\n") = Len(given)
            /\ CountOf(output_content, "\r") = 0
            /\ output_content # <<>> => output_content[Len(output_content)] = "\n"
            /\ \A i \in 1..Len(given) :
                   (\A j \in 1..Len(given[i]) : IsSpace(given[i][j])) =>
                       i <= Len(written) /\ written[i] = <<>>

\* a blank line ended by "\r" and an unterminated line are written as an
\* empty line and a line, each ended by "\n"
C12_Witness ==
    /\ op = "process_file"
    /\ raised = "none"
    /\ input_content = L_blank \o <<"\r">> \o L_large_building
    /\ output_content = <<"\n">> \o TidyText(<<W_big, U_building_dot>>) \o <<"\n">>

\* C13: when input_file cannot be opened or read, or output_file cannot be
\* opened or written, process_file raises and returns no statistics; it returns
\* statistics only when the read and the write both completed.
C13_FileErrorsSurface ==
    op = "process_file" =>
        /\ file_access # NoAccess =>
               /\ raised # "none"
               /\ file_stats = NoFileStats
        /\ file_access.source # "readable" => raised = ReadError(file_access.source)
        /\ raised = "none" => file_access = NoAccess

\* a file with a replaceable word is read, output_file cannot be opened
C13_Witness ==
    /\ op = "process_file"
    /\ input_content = L_large_building \o <<"\n">>
    /\ file_access = [source |-> "readable", destination |-> "unopenable"]
    /\ raised = "OSError"
    /\ file_stats = NoFileStats

\* __init__ raised: there is no processor, so no call is ever made
NoProcessor ==
    /\ load_error # "none"
    /\ op = "idle"
    /\ reverse_lookup = EmptyDict
    /\ case_insensitive_lookup = EmptyDict

\* C14: CVCProcessor(mapping_file) raises when the file is absent, is not
\* parseable or its document lacks reverse_lookup; a document that lacks
\* metadata only is loaded, with metadata empty.
C14_LoadErrors ==
    /\ mapping_file.kind = "absent" => NoProcessor
    /\ mapping_file.kind = "unparsable" => NoProcessor
    /\ (mapping_file.kind = "document"
            /\ "reverse_lookup" \notin DOMAIN mapping_file.data) => NoProcessor
    /\ (mapping_file.kind = "document"
            /\ DOMAIN mapping_file.data = {"reverse_lookup", "mappings"}) =>
           /\ load_error = "none"
           /\ metadata = EmptyDict
           /\ reverse_lookup = mapping_file.data.reverse_lookup

\* a document with mappings and metadata but no reverse_lookup is refused
C14_Witness ==
    /\ mapping_file.kind = "document"
    /\ DOMAIN mapping_file.data = {"mappings", "metadata"}
    /\ load_error = "KeyError"
    /\ op = "idle"

\* C15: in every state a sequence of calls reaches, failed calls included,
\* reverse_lookup, case_insensitive_lookup and mappings are what __init__
\* stored, and a returned process_text result is the one the same call gives
\* in that state.
C15_TableImmutable ==
    load_error = "none" =>
        /\ reverse_lookup = mapping_file.data.reverse_lookup
        /\ mappings = mapping_file.data.mappings
        /\ case_insensitive_lookup =
               BuildCaseInsensitiveLookup(mapping_file.data.reverse_lookup)
        /\ (op \in TextOps /\ raised = "none") =>
               LET again == ProcessText(text, preserve_case)
               IN  /\ processed_text = again.processed_text
                   /\ statistics = again.statistics

\* a call of process_file has failed and the table is the one loaded
C15_Witness ==
    /\ op = "process_file"
    /\ raised = "OSError"
    /\ file_access.source = "unopenable"
    /\ mapping_file.kind = "document"
    /\ reverse_lookup = ExpandedDocument.reverse_lookup
    /\ mappings = ExpandedMappings

\* the last position of the run of word characters that starts at i
RunLast(s, i) ==
    CHOOSE j \in i..Len(s) :
        /\ \A k \in i..j : IsWordChar(s[k])
        /\ j = Len(s) \/ ~IsWordChar(s[j + 1])

\* the set of the lowercased maximal runs of word characters of s
WordForms(s) ==
    { StrLower(SubSeq(s, i, RunLast(s, i))) :
      i \in {k \in 1..Len(s) : IsWordChar(s[k]) /\ (k = 1 \/ ~IsWordChar(s[k - 1]))} }

\* the word forms of the document processed as one text
CanonicalForms(s) == WordForms(ProcessText(s, TRUE).processed_text)

\* the units of s are distinct synonyms that self.mappings lists under c
SynonymsOnly(s, c) ==
    LET units == Split(s)
    IN  /\ units # <<>>
        /\ \A i \in 1..Len(units) : units[i] \in SynonymsOf(c)
        /\ \A i, j \in 1..Len(units) : units[i] = units[j] => i = j

\* C16: get_vocabulary_stats reports the numbers of lowercased word forms of
\* the raw and of the processed document, their difference and the quotient
\* of the difference by the first number; for a document of k distinct
\* synonyms of one canonical of the expand_mappings table the numbers are k
\* and 1 and the difference is k - 1.
C16_VocabularyResult ==
    (op = "get_vocabulary_stats" /\ raised = "none") =>
        LET raw == Cardinality(WordForms(input_content))
            canon == Cardinality(CanonicalForms(input_content))
        IN  /\ vocab_stats.original_vocabulary_size = raw
            /\ vocab_stats.processed_vocabulary_size = canon
            /\ vocab_stats.vocabulary_reduction = raw - canon
            /\ vocab_stats.reduction_rate.kind = "value"
            /\ vocab_stats.reduction_rate.num * raw
                   = (raw - canon) * vocab_stats.reduction_rate.den
            /\ raw = 0 => vocab_stats.reduction_rate.num = 0
            /\ \A c \in Canonicals :
                   (mappings = ExpandedMappings /\ SynonymsOnly(input_content, c)) =>
                       /\ vocab_stats.original_vocabulary_size
                              = Len(Split(input_content))
                       /\ vocab_stats.processed_vocabulary_size = 1
                       /\ vocab_stats.vocabulary_reduction
                              = Len(Split(input_content)) - 1

\* C17: when the processed document has more lowercased word forms than the
\* raw one, get_vocabulary_stats raises nothing and returns the negative
\* difference and the negative quotient as they are.
C17_NegativeReduction ==
    (op = "get_vocabulary_stats" /\ file_access = NoAccess) =>
        LET raw == Cardinality(WordForms(input_content))
            canon == Cardinality(CanonicalForms(input_content))
        IN  canon > raw =>
                /\ raised = "none"
                /\ vocab_stats.vocabulary_reduction = raw - canon
                /\ vocab_stats.vocabulary_reduction < 0
                /\ vocab_stats.reduction_rate.kind = "value"
                /\ vocab_stats.reduction_rate.den > 0
                /\ vocab_stats.reduction_rate.num * raw
                       = (raw - canon) * vocab_stats.reduction_rate.den
                /\ vocab_stats.reduction_rate.num < 0

\* "large Large" under large -> big, Large -> Good: one form becomes two
C17_Witness ==
    /\ op = "get_vocabulary_stats"
    /\ raised = "none"
    /\ input_content = TidyText(<<W_large, W_Large>>)
    /\ vocab_stats.original_vocabulary_size = 1
    /\ vocab_stats.processed_vocabulary_size = 2
    /\ vocab_stats.vocabulary_reduction = -1
    /\ vocab_stats.reduction_rate.num = -1
    /\ vocab_stats.reduction_rate.den = 1

\* the place of the last key of lookup that lowercases to k
LastFolded(lookup, k) ==
    CHOOSE i \in 1..Len(lookup) :
        /\ StrLower(lookup[i][1]) = k
        /\ \A j \in (i + 1)..Len(lookup) : StrLower(lookup[j][1]) # k

\* C18: case_insensitive_lookup has one entry for each distinct lowercased
\* key of reverse_lookup and no other entry, and the entry holds the
\* canonical of the last key of reverse_lookup that lowercases to it.
C18_FoldedIndex ==
    load_error = "none" =>
        /\ \A i, j \in 1..Len(case_insensitive_lookup) :
               case_insensitive_lookup[i][1] = case_insensitive_lookup[j][1] => i = j
        /\ {case_insensitive_lookup[i][1] : i \in 1..Len(case_insensitive_lookup)}
               = {StrLower(reverse_lookup[i][1]) : i \in 1..Len(reverse_lookup)}
        /\ \A i \in 1..Len(case_insensitive_lookup) :
               case_insensitive_lookup[i][2]
                   = reverse_lookup[LastFolded(reverse_lookup,
                                               case_insensitive_lookup[i][1])][2]

\* "large" and "Large" share one entry, which holds the canonical of "Large"
C18_Witness ==
    /\ load_error = "none"
    /\ reverse_lookup = CaseVariantDocument.reverse_lookup
    /\ Len(reverse_lookup) = 4
    /\ case_insensitive_lookup =
           << <<W_large, W_Good>>, <<W_b2b, W_trade>>, <<W_huge, <<>>>> >>

\* C19: a call made again on a processor constructed from another document
\* with the same reverse_lookup, whatever its mappings and metadata, returns
\* what it returned before.
C19_ReverseLookupAuthoritative ==
    op = "repeat" =>
        /\ raised = prev_result.raised
        /\ processed_text = prev_result.processed_text
        /\ statistics = prev_result.statistics
        /\ output_content = prev_result.output_content
        /\ file_stats = prev_result.file_stats
        /\ vocab_stats = prev_result.vocab_stats

\* "large" is listed under "small" by the second document and still gives "big"
C19_Witness ==
    /\ op = "repeat"
    /\ prev_result.op = "process_text"
    /\ mappings = InconsistentDocument.mappings
    /\ metadata = EmptyDict
    /\ text = W_large
    /\ processed_text = W_big
    /\ prev_result.processed_text = W_big

\* the categories of self.mappings that list the synonym s
ListedUnder(s) ==
    {i \in 1..Len(mappings) :
        \E j \in 1..Len(mappings[i].synonyms) : mappings[i].synonyms[j] = s}

\* the greatest number of a non-empty set of numbers
Greatest(S) == CHOOSE n \in S : \A m \in S : m <= n

\* C20: in the document expand_mappings.py writes, the keys of reverse_lookup
\* are the synonyms of the categories, and each synonym is mapped to the
\* canonical of the last category that lists it.
C20_LastWriterWins ==
    (load_error = "none" /\ mapping_file.data = ExpandedDocument) =>
        /\ {reverse_lookup[i][1] : i \in 1..Len(reverse_lookup)}
               = UNION {SynonymsOf(c) : c \in Canonicals}
        /\ \A i, j \in 1..Len(reverse_lookup) :
               reverse_lookup[i][1] = reverse_lookup[j][1] => i = j
        /\ \A i \in 1..Len(reverse_lookup) :
               reverse_lookup[i][2]
                   = mappings[Greatest(ListedUnder(reverse_lookup[i][1]))].canonical

\* "great" (size_big, quality_good) is mapped to "good" and "brilliant"
\* (intelligence_smart, light_bright) to "bright"
C20_Witness ==
    /\ load_error = "none"
    /\ mapping_file.data = ExpandedDocument
    /\ ListedUnder(W_great) = {1, 3}
    /\ DictGet(reverse_lookup, W_great) = W_good
    /\ DictGet(reverse_lookup, W_brilliant) = W_bright
    /\ DictGet(reverse_lookup, W_large) = W_big

\* C25: a unit gets a replacement record exactly when its core resolves to a
\* stored value; a core whose key is mapped to the empty string is replaced as
\* well: it is emitted as its prefix and suffix and has one record.
C25_EmptyCanonicalReplaced ==
    op \in TextOps =>
        LET given == InUnits
            emitted == OutUnits
        IN  \A i \in 1..Len(given) :
                SingleRun(given[i]) =>
                    /\ (RecordsAt(i - 1) # {}) <=> (StoredValues(WordCharsOf(given[i])) # {})
                    /\ StoredValues(WordCharsOf(given[i])) = {<<>>} =>
                           Join(emitted, <<" ">>)
                               = Join([k \in 1..Len(given) |->
                                          IF k = i
                                          THEN LeadingPunctuation(given[i])
                                               \o TrailingPunctuation(given[i])
                                          ELSE IF k <= Len(emitted) THEN emitted[k]
                                               ELSE <<>>], <<" ">>)
                              \/ Len(emitted) # Len(given)

\* the characters of t that are whitespace
SpacesOf(t) == {i \in 1..Len(t) : IsSpace(t[i])}

\* no stored canonical holds a whitespace character
CanonicalsAreWords ==
    \A i \in 1..Len(reverse_lookup) :
        \A k \in 1..Len(reverse_lookup[i][2]) : ~IsSpace(reverse_lookup[i][2][k])

\* C26: when no canonical holds whitespace, the returned text has total_words
\* units, as many as the argument; its i-th unit is the i-th unit of the
\* argument or that unit's prefix, the recorded canonical and its suffix; the
\* units are separated by one space each and nothing leads or trails them.
C26_UnitStructure ==
    (op \in TextOps /\ raised = "none" /\ CanonicalsAreWords) =>
        LET given == InUnits
            emitted == OutUnits
            records == statistics.replacements
        IN  /\ CountUnits(processed_text) = statistics.total_words
            /\ CountUnits(processed_text) = CountUnits(text)
            /\ Len(emitted) = Len(given)
            /\ \A i \in 1..Len(emitted) :
                   i <= Len(given) =>
                       \/ emitted[i] = given[i]
                       \/ \E j \in RecordsAt(i - 1) :
                              emitted[i] = LeadingPunctuation(given[i])
                                           \o records[j].canonical
                                           \o TrailingPunctuation(given[i])
            /\ \A k \in SpacesOf(processed_text) :
                   /\ processed_text[k] = " "
                   /\ 1 < k /\ k < Len(processed_text)
                   /\ k + 1 \notin SpacesOf(processed_text)

\* "\tlarge \nbuilding. " gives "big building."
C26_Witness ==
    /\ op = "process_text"
    /\ CanonicalsAreWords
    /\ text = MessyText(<<W_large, U_building_dot>>)
    /\ SpacesOf(text) = {1, 7, 8, 18}
    /\ processed_text = TidyText(<<W_big, U_building_dot>>)
    /\ statistics.total_words = 2

\* the texts that present the key k to process_text: alone, in upper case,
\* capitalized, in brackets, and after another word
KeyTexts(k) ==
    {k, StrUpper(k), StrCapitalize(k), <<"(">> \o k \o <<")">>, TidyText(<<U_The, k>>)}

\* process_text makes a replacement on t whose original is the key k, in the
\* case of k or in another
ReplacesVia(t, k) ==
    \E r \in {ProcessText(t, TRUE)} :
        \E j \in 1..Len(r.statistics.replacements) :
            StrLower(r.statistics.replacements[j].original) = StrLower(k)

\* C27: for every key of the reverse_lookup expand_mappings.py writes there is
\* a text on which process_text makes a replacement through that key.
C27_EveryKeyReachable ==
    (op = "idle" /\ load_error = "none" /\ mapping_file.data = ExpandedDocument) =>
        \A i \in 1..Len(reverse_lookup) :
            \E t \in InputTexts \cup KeyTexts(reverse_lookup[i][1]) :
                ReplacesVia(t, reverse_lookup[i][1])

\* C29: a parseable document that has the key reverse_lookup constructs a
\* processor whose table is that document's reverse_lookup, whether or not it
\* has mappings or metadata.
C29_ReverseLookupSuffices ==
    (mapping_file.kind = "document" /\ "reverse_lookup" \in DOMAIN mapping_file.data) =>
        /\ load_error = "none"
        /\ reverse_lookup = mapping_file.data.reverse_lookup

\* C23: process_file opens output_file only after input_file was read and its
\* lines processed: when the read fails every file is as it was before the
\* call, and when output_file is input_file itself the content written and the
\* statistics are those of the content input_file held before the call.
C23_ReadBeforeWrite ==
    op = "process_file" =>
        /\ ReadError(file_access.source) # "none" =>
               /\ raised = ReadError(file_access.source)
               /\ disk.after = disk.before
        /\ (disk.output_file = disk.input_file /\ raised = "none") =>
               /\ disk.before[disk.input_file] = Some(input_content)
               /\ output_content = ProcessFile(input_content).output_content
               /\ file_stats = ProcessFile(input_content).file_stats
               /\ disk.after[disk.input_file] = Some(output_content)

\* "large building.\n" processed onto itself becomes "big building.\n", with
\* the counts of the two words read
C23_Witness ==
    /\ op = "process_file"
    /\ raised = "none"
    /\ disk.input_file = "input.txt"
    /\ disk.output_file = "input.txt"
    /\ disk.before["input.txt"] = Some(L_large_building \o <<"\n">>)
    /\ disk.after["input.txt"] = Some(TidyText(<<W_big, U_building_dot>>) \o <<"\n">>)
    /\ file_stats.total_words = 2
    /\ file_stats.total_replacements = 1

\* C22: the lines of a file processed in any order, the output assembled by
\* line index, give the file and the total_words, total_replacements and
\* replacement_rate that process_file gave in the order of the file.
C22_LineOrderIndependent ==
    op = "reordered" =>
        /\ raised = "none"
        /\ output_content = prev_result.output_content
        /\ file_stats = prev_result.file_stats
        /\ \A i \in 1..Len(line_order) :
               i <= Len(TextLines(output_content)) =>
                   TextLines(output_content)[i]
                       = ProcessText(Strip(ReadLines(input_content)[i]), TRUE).processed_text

\* the blank line of a file is processed before its line "large building."
C22_Witness ==
    /\ op = "reordered"
    /\ line_order = <<2, 1>>
    /\ ReadLines(input_content) = <<L_large_building \o <<"\n">>, L_blank \o <<"\n">>>>
    /\ output_content = TidyText(<<W_big, U_building_dot>>) \o <<"\n", "\n">>
    /\ file_stats.total_lines = 2
    /\ file_stats.total_words = 2
    /\ file_stats.total_replacements = 1

\* C21: the statistics RustCVCProcessor.process_text returns for a text are
\* those CVCProcessor.process_text returns for it: replacements_made counts the
\* units replaced, replacements holds their records, and replacement_rate is
\* replacements_made / total_words.
C21_RustStatistics ==
    (op = "rust_process_text" /\ raised = "none") =>
        statistics = ProcessText(text, preserve_case).statistics

\* C24: RustCVCProcessor.process_file writes the file CVCProcessor.process_file
\* writes for the same input, the canonicals cased as the words they replace.
C24_RustFilePreservesCase ==
    (op = "rust_process_file" /\ raised = "none") =>
        output_content = ProcessFile(input_content).output_content

\* C28: after RustCVCProcessor.process_text or get_vocabulary_stats returned
\* or raised, none of the temporary files the call created is left.
C28_TempFilesRemoved ==
    op \in {"rust_process_text", "rust_get_vocabulary_stats"} => temp_files = {}

\* C30: when the original file has no non-blank line, basic_evaluation
\* completes and reports replacement_rate 0 and reduction_rate 0.
C30_EvaluationRateGuards ==
    (op = "basic_evaluation" /\ LoadTextFile(input_content) = <<>>) =>
        /\ raised = "none"
        /\ evaluation.replacement_statistics.replacement_rate = Zero
        /\ evaluation.vocabulary_reduction.reduction_rate = Zero

====
